---------------------------- MODULE Spec2Model ----------------------------
(***************************************************************************)
(* A model of dnsseed-rust: the per-peer scan session of main.rs           *)
(* (scan_node), the rolling generational bloom filter of bloom.rs, the     *)
(* BGP client of bgp_client.rs, the memory-limiting allocator, the task    *)
(* graph of main.rs and the header chain kept by make_trusted_conn.        *)
(*                                                                         *)
(* Each subsystem has its own specification (ScanSpec / FairScanSpec /     *)
(* ScanUpdateSpec, BloomSpec, RouteSpec, BgpSpec / FairBgpSpec /           *)
(* UpdateSpec, AllocSpec, DriverSpec / FairDriverSpec, TrustedSpec); a     *)
(* specification leaves the other subsystems' variables at their           *)
(* constructed values.                                                     *)
(***************************************************************************)
EXTENDS Integers, Sequences, FiniteSets, TLC

(***************************************************************************)
(* Bounds of the model.                                                    *)
(***************************************************************************)
\* height of the non-genesis challenge block
ChallengeHeight == 3
\* the store's MinProtocolVersion setting (U64Setting::MinProtocolVersion)
MinProtocolVersion == 2
\* the clock of the bloom filter's caller runs from 0 to MaxTime ticks
MaxTime == 4
\* the roll_duration the caller passes to insert, in ticks
RollDuration == 3
\* the routing table holds at most MaxRoutes routes
MaxRoutes == 3
\* the threads that call the allocator
AllocThreads == 2

VARIABLES
    \* ---- scan session (main.rs) ----
    START_SHUTDOWN,   \* the process-wide shutdown flag
    REQUEST_BLOCK,    \* the challenge tuple <<height, hash, block>>
    pc,               \* where the session's future chain stands
    peer_state,       \* the PeerState behind the session's mutex
    sent,             \* the messages write.try_send has accepted
    published,        \* the calls of store.set_node_state, in order
    accepted,         \* history: the messages that set a checkpoint flag
    last_dup,         \* history: whether the latest message repeated a checkpoint
    \* ---- rolling bloom filter (bloom.rs) ----
    now,                            \* Instant::now(), in ticks
    last_roll,
    inserted_in_last_generations,
    inserted_since_last_roll,
    current_generation,
    bits,                           \* the words, indexed from 0
    hash_keys,                      \* hash_keys[k]: the key of hasher k
    age,          \* history: rolls since the item's latest insert, -1 never
    last_writer,  \* history: the item whose insert last wrote the cell
    n_inserts,    \* history: insert calls so far, up to 2 * ROLL_COUNT + 4
    n_rolls,      \* history: rolls so far, up to GENERATION_COUNT + 1
    \* ---- BGP client (bgp_client.rs) ----
    v4_table,         \* RoutingTable.v4_table: key -> (path id -> Route)
    shutdown,         \* BGPClient.shutdown
    bgp_pc,           \* where connect_given_client's future chain stands
    sender,           \* messages waiting in the mpsc channel of the session
    receiver_alive,   \* whether the writer task still holds the receiver
    last_try_send,    \* history: the result of the latest step's try_send
    last_update,      \* history: the UPDATE the latest step of BgpSpec handled
    fresh,            \* history: whether the session of BgpSpec has handled an
                      \* OPEN, and the <<prefix, path id>> stored since
    \* ---- allocator (main.rs) ----
    TOTAL_MEM_ALLOCD, \* the atomic counter
    live,             \* live[n]: the live allocations of n bytes
    alloc_pc,         \* alloc_pc[t]: where thread t stands in alloc / dealloc
    alloc_len,        \* alloc_len[t]: layout.size() of thread t's call
    alloc_old,        \* alloc_old[t]: what thread t's fetch_add returned
    \* ---- task graph (main.rs) ----
    SCANNING,         \* the static SCANNING
    trusted_pc,       \* where make_trusted_conn's future chain stands
    dns_pc,           \* where the poll_dnsseeds loop stands
    \* ---- header chain of the trusted peer (main.rs) ----
    HEADER_MAP,       \* hash -> height
    HEIGHT_MAP,       \* height -> hash
    HIGHEST_HEADER,   \* the tip <<hash, height>>
    starting_height,  \* the local of the trusted-peer session
    trusted_sent,     \* the messages the latest step's try_send accepted
    last_msg,         \* history: the message the latest step handled
    n_started,        \* history: calls of scan_net and poll_dnsseeds so far
    n_published       \* history: stores to REQUEST_BLOCK so far, up to 2

scanVars == <<START_SHUTDOWN, REQUEST_BLOCK, pc, peer_state, sent, published,
              accepted, last_dup>>

bloomVars == <<now, last_roll, inserted_in_last_generations,
               inserted_since_last_roll, current_generation, bits, hash_keys,
               age, last_writer, n_inserts, n_rolls>>

bgpVars == <<v4_table, shutdown, bgp_pc, sender, receiver_alive,
             last_try_send>>

allocVars == <<TOTAL_MEM_ALLOCD, live, alloc_pc, alloc_len, alloc_old>>

driverVars == <<SCANNING, trusted_pc, dns_pc>>

bgpHist == <<last_update, fresh>>

chainVars == <<HEADER_MAP, HEIGHT_MAP, HIGHEST_HEADER, starting_height,
               trusted_sent, last_msg, n_started, n_published>>

vars == <<scanVars, bloomVars, bgpVars, bgpHist, allocVars, driverVars,
          chainVars>>

Min(a, b) == IF a < b THEN a ELSE b

(***************************************************************************)
(* Scan session: scan_node, main.rs 99-308.                                *)
(***************************************************************************)

\* ServiceFlags::NETWORK and ServiceFlags::NETWORK_LIMITED (bit masks)
NETWORK == 1
NETWORK_LIMITED == 1024
\* services.has(flag) for a single-bit flag
has(services, flag) == (services \div flag) % 2 = 1

\* 1008*2 of the VERSION height check
HeightWindow == 1008 * 2

\* Network messages, all of one shape: n is the nonce of PING/PONG or the
\* length of ADDR/ADDRV2, ver is <<start_height, version, services, the
\* user agent matches SubverRegex>>, invs the inventory types of INV, block
\* the body of BLOCK, cmd the command of an unknown message.
Msg(t, n, ver, invs, block, cmd) ==
    [type |-> t, n |-> n, ver |-> ver, invs |-> invs, block |-> block, cmd |-> cmd]
NoVer == <<0, 0, 0, FALSE>>
VersionMsg(ver) == Msg("version", 0, ver, <<>>, "", "")
VerackMsg == Msg("verack", 0, NoVer, <<>>, "", "")
SendAddrV2Msg == Msg("sendaddrv2", 0, NoVer, <<>>, "", "")
PingMsg(v) == Msg("ping", v, NoVer, <<>>, "", "")
PongMsg(v) == Msg("pong", v, NoVer, <<>>, "", "")
GetAddrMsg == Msg("getaddr", 0, NoVer, <<>>, "", "")
AddrMsg(len) == Msg("addr", len, NoVer, <<>>, "", "")
AddrV2Msg(len) == Msg("addrv2", len, NoVer, <<>>, "", "")
GetDataMsg(hash) == Msg("getdata", 0, NoVer, <<"WitnessBlock">>, hash, "")
BlockMsg(b) == Msg("block", 0, NoVer, <<>>, b, "")
InvMsg(invs) == Msg("inv", 0, NoVer, invs, "", "")
TxMsg == Msg("tx", 0, NoVer, <<>>, "", "")
UnknownMsg(cmd) == Msg("unknown", 0, NoVer, <<>>, "", cmd)
OtherMsg == Msg("other", 0, NoVer, <<>>, "", "")
NoMsg == Msg("none", 0, NoVer, <<>>, "", "")

\* The challenge tuples REQUEST_BLOCK can hold: the genesis tuple main()
\* installs and one later challenge.
GenesisChallenge == <<0, "genesis_hash", "genesis">>
Challenges == {GenesisChallenge, <<ChallengeHeight, "hashA", "blockA">>}

\* What a peer can send.
\* pong_nonce is a random u64; two values tell a matching PONG from another
Nonces == {0, 1}
StartHeights(h) == {-1, h - 1, h, h + HeightWindow, h + HeightWindow + 1}
Versions == {MinProtocolVersion - 1, MinProtocolVersion}
Services == {0, NETWORK, NETWORK_LIMITED}
AddrLens == {10, 11, 1001}
Blocks == {"genesis", "blockA", "blockB"}
InvTypes == {"Transaction", "WitnessTransaction", "Block"}
InvLists == {<<>>} \cup {<<a>> : a \in InvTypes}
                   \cup {<<"Block", a>> : a \in InvTypes}
Commands == {"gnop", "pong2"}

\* PeerState as constructed at main.rs 105-116
NewPeerState(request, nonce) ==
    [request |-> request, pong_nonce |-> nonce, node_services |-> 0,
     msg |-> <<"", FALSE>>, fail_reason |-> "Timeout",
     recvd_version |-> FALSE, recvd_verack |-> FALSE, recvd_pong |-> FALSE,
     recvd_addrs |-> FALSE, recvd_block |-> FALSE]

\* The result of one call of the for_each closure: the new PeerState, the
\* messages try_send accepted, whether the closure returned future::err,
\* whether a checkpoint flag was set.  (The addresses of ADDR / ADDRV2 go to
\* the store's candidate list, which is not part of this model.)
Result(st, out, err, acc) ==
    [st |-> st, out |-> out, err |-> err, acc |-> acc]

\* a check_set_flag! that sets the flag without looking at it
set_flag_unchecked(st, flag, text) ==
    [st |-> [st EXCEPT ![flag] = TRUE], err |-> FALSE]

\* check_set_flag!, main.rs 129-139: err on a flag that is already set
check_set_flag(st, flag, text) ==
    IF st[flag]
    THEN [st |-> [st EXCEPT !.fail_reason = "ProtocolViolation",
                            !.msg = <<text, TRUE>>,
                            ![flag] = FALSE],
          err |-> TRUE]
    ELSE [st |-> [st EXCEPT ![flag] = TRUE], err |-> FALSE]

\* The checks of a VERSION message, main.rs 143-168: the class it is
\* rejected with and the log text, or "ok"
VersionCheck(st, ver) ==
    IF ver[1] < 0 \/ ver[1] > st.request[1] + HeightWindow
    THEN <<"HighBlockCount", st.msg>>
    ELSE IF ver[1] < st.request[1]
    THEN <<"LowBlockCount", <<"(start_height < request.0)", TRUE>>>>
    ELSE IF ver[2] < MinProtocolVersion
    THEN <<"LowVersion", <<"(version < min_version)", TRUE>>>>
    ELSE IF ~has(ver[3], NETWORK) /\ ~has(ver[3], NETWORK_LIMITED)
    THEN <<"NotFullNode", <<"(services)", TRUE>>>>
    ELSE IF ~ver[4]
    THEN <<"BadVersion", <<"subver", TRUE>>>>
    ELSE <<"ok", st.msg>>

\* try_send of the messages `out` in order, the first nok succeeding:
\* the messages queued and whether one failed
TrySend(out, nok) ==
    [queued |-> SubSeq(out, 1, Min(nok, Len(out))), failed |-> nok < Len(out)]

\* Some(NetworkMessage::Version(ver)), main.rs 142-178
HandleVersion(st, m, nok) ==
    LET chk == VersionCheck(st, m.ver) IN
    IF chk[1] # "ok"
    THEN Result([st EXCEPT !.fail_reason = chk[1], !.msg = chk[2]],
                <<>>, TRUE, FALSE)
    ELSE LET r == check_set_flag(st, "recvd_version", "due to dup version") IN
         IF r.err THEN Result(r.st, <<>>, TRUE, FALSE)
         ELSE LET s == TrySend(<<SendAddrV2Msg, VerackMsg>>, nok) IN
              Result([r.st EXCEPT !.node_services = m.ver[3],
                                  !.msg = <<"(subver)", FALSE>>],
                     s.queued, s.failed, TRUE)

\* Some(NetworkMessage::Verack), main.rs 179-184
HandleVerack(st, m, nok) ==
    LET r == check_set_flag(st, "recvd_verack", "due to dup verack") IN
    IF r.err THEN Result(r.st, <<>>, TRUE, FALSE)
    ELSE LET s == TrySend(<<PingMsg(st.pong_nonce)>>, nok) IN
         Result(r.st, s.queued, s.failed, TRUE)

\* Some(NetworkMessage::Ping(v)), main.rs 185-189
HandlePing(st, m, nok) ==
    LET s == TrySend(<<PongMsg(m.n)>>, nok) IN
    Result(st, s.queued, s.failed, FALSE)

\* a PONG test that accepts every nonce
PongNonceAny(st, v) == TRUE

\* the nonce test of PONG, main.rs 191
PongNonceOk(st, v) == v = st.pong_nonce

\* Some(NetworkMessage::Pong(v)), main.rs 190-200
HandlePong(st, m, nok) ==
    IF ~PongNonceOk(st, m.n)
    THEN Result([st EXCEPT !.fail_reason = "ProtocolViolation",
                           !.msg = <<"due to invalid pong nonce", TRUE>>],
                <<>>, TRUE, FALSE)
    ELSE LET r == check_set_flag(st, "recvd_pong", "due to dup pong") IN
         IF r.err THEN Result(r.st, <<>>, TRUE, FALSE)
         ELSE LET s == TrySend(<<GetAddrMsg>>, nok) IN
              Result(r.st, s.queued, s.failed, TRUE)

\* the size tests of ADDR / ADDRV2, main.rs 202 and 208 (219 and 225)
AddrOversized(len) == len > 1000
AddrCounts(len) == len > 10

\* Some(NetworkMessage::Addr(addrs)) and Some(NetworkMessage::AddrV2(addrs)),
\* main.rs 201-234: the two arms differ only in the store call
HandleAddr(st, m, nok) ==
    IF AddrOversized(m.n)
    THEN Result([st EXCEPT !.fail_reason = "ProtocolViolation",
                           !.msg = <<"due to oversized addr", TRUE>>,
                           !.recvd_addrs = FALSE],
                <<>>, TRUE, FALSE)
    ELSE IF AddrCounts(m.n)
    THEN LET s == IF ~st.recvd_addrs
                  THEN TrySend(<<GetDataMsg(st.request[2])>>, nok)
                  ELSE TrySend(<<>>, nok) IN
         IF s.failed THEN Result(st, s.queued, TRUE, FALSE)
         ELSE Result([st EXCEPT !.recvd_addrs = TRUE], s.queued, FALSE,
                     ~st.recvd_addrs)
    ELSE Result(st, <<>>, FALSE, FALSE)

\* the comparison of BLOCK with the challenge block, main.rs 236
\* a comparison with the challenge block of the moment
BlockMatchesCurrent(st, b) == b = REQUEST_BLOCK[3]

BlockMatches(st, b) == b = st.request[3]

\* Some(NetworkMessage::Block(block)), main.rs 235-243
HandleBlock(st, m, nok) ==
    IF ~BlockMatches(st, m.block)
    THEN Result([st EXCEPT !.fail_reason = "ProtocolViolation",
                           !.msg = <<"due to bad block", TRUE>>],
                <<>>, TRUE, FALSE)
    ELSE LET r == check_set_flag(st, "recvd_block", "due to dup block") IN
         Result(r.st, <<>>, TRUE, ~r.err)

\* Some(NetworkMessage::Inv(invs)), main.rs 244-255
HandleInv(st, m, nok) ==
    IF \E i \in 1..Len(m.invs) :
           m.invs[i] \in {"Transaction", "WitnessTransaction"}
    THEN Result([st EXCEPT !.fail_reason = "EvilNode",
                           !.msg = <<"due to unrequested inv tx", TRUE>>],
                <<>>, TRUE, FALSE)
    ELSE Result(st, <<>>, FALSE, FALSE)

\* Some(NetworkMessage::Tx(_)), main.rs 256-260
\* a Tx arm that takes the message for a violation of the protocol
HandleTxAsViolation(st, m, nok) ==
    Result([st EXCEPT !.fail_reason = "ProtocolViolation",
                      !.msg = <<"due to unrequested transaction", TRUE>>],
           <<>>, TRUE, FALSE)

HandleTx(st, m, nok) ==
    Result([st EXCEPT !.fail_reason = "EvilNode",
                      !.msg = <<"due to unrequested transaction", TRUE>>],
           <<>>, TRUE, FALSE)

\* Some(NetworkMessage::Unknown { command, .. }) with another command, and
\* the `_ => {}` arm, main.rs 261-270
HandleIgnored(st, m, nok) == Result(st, <<>>, FALSE, FALSE)

\* peer_state.lock() and the assignment every call starts with,
\* main.rs 128 and 140
Locked == [peer_state EXCEPT !.fail_reason = "TimeoutDuringRequest"]

\* the stream yields a message to the for_each closure, main.rs 126-127
CanRecv == pc = "reading"

\* History of the input: the checkpoint whose flag was already set when
\* the message m arrived, and whether m passes the content test of its arm
\* (the VERSION checks, the PONG nonce, at most 1000 addresses, the block).
NoDup == [kind |-> "none", passes |-> FALSE]
DupOf(m) ==
    LET k == IF m.type = "addrv2" THEN "addr" ELSE m.type
        flag == CASE k = "version" -> "recvd_version"
                  [] k = "verack" -> "recvd_verack"
                  [] k = "pong" -> "recvd_pong"
                  [] k = "addr" -> "recvd_addrs"
                  [] k = "block" -> "recvd_block"
                  [] OTHER -> "none"
    IN IF flag = "none" THEN NoDup
       ELSE IF ~peer_state[flag] THEN NoDup
       ELSE [kind |-> k,
             passes |-> CASE k = "version" ->
                                 /\ m.ver[1] >= peer_state.request[1]
                                 /\ m.ver[1] <= peer_state.request[1] + 2016
                                 /\ m.ver[2] >= MinProtocolVersion
                                 /\ m.ver[3] \in {NETWORK, NETWORK_LIMITED}
                                 /\ m.ver[4]
                          [] k = "pong" -> m.n = peer_state.pong_nonce
                          [] k = "addr" -> m.n <= 1000
                          [] k = "block" -> m.block = peer_state.request[3]
                          [] OTHER -> TRUE]

\* the effect of one call of the closure that returned, main.rs 128-271
Deliver(m, r) ==
    /\ peer_state' = r.st
    /\ sent' = sent \cup {r.out[i] : i \in 1..Len(r.out)}
    /\ pc' = IF r.err THEN "ended" ELSE "reading"
    /\ accepted' = IF r.acc THEN Append(accepted, m) ELSE accepted
    /\ last_dup' = DupOf(m)
    /\ UNCHANGED <<START_SHUTDOWN, REQUEST_BLOCK, published>>

\* scan_node's entry, main.rs 99-116: nothing happens under shutdown,
\* otherwise the PeerState is built with a random nonce and the current
\* challenge
ScanNode ==
    /\ pc = "scheduled"
    /\ IF START_SHUTDOWN
       THEN pc' = "skipped" /\ UNCHANGED peer_state
       ELSE /\ pc' = "connecting"
            /\ \E nonce \in Nonces :
                   peer_state' = NewPeerState(REQUEST_BLOCK, nonce)
    /\ UNCHANGED <<START_SHUTDOWN, REQUEST_BLOCK, sent, published, accepted, last_dup>>

\* Peer::new resolves, main.rs 120-125
ConnectOk ==
    /\ pc = "connecting"
    /\ pc' = "reading"
    /\ UNCHANGED <<START_SHUTDOWN, REQUEST_BLOCK, peer_state, sent, published, accepted, last_dup>>

\* Peer::new fails: and_then is skipped, main.rs 125 and 275
ConnectFail ==
    /\ pc = "connecting"
    /\ pc' = "ended"
    /\ UNCHANGED <<START_SHUTDOWN, REQUEST_BLOCK, peer_state, sent, published, accepted, last_dup>>

RecvVersion ==
    /\ CanRecv
    /\ \E h \in StartHeights(peer_state.request[1]), v \in Versions,
          s \in Services, ua \in BOOLEAN, nok \in 0..2 :
          LET m == VersionMsg(<<h, v, s, ua>>) IN
          Deliver(m, HandleVersion(Locked, m, nok))

RecvVerack ==
    /\ CanRecv
    /\ \E nok \in 0..1 : Deliver(VerackMsg, HandleVerack(Locked, VerackMsg, nok))

RecvPing ==
    /\ CanRecv
    /\ \E v \in Nonces, nok \in 0..1 :
          Deliver(PingMsg(v), HandlePing(Locked, PingMsg(v), nok))

RecvPong ==
    /\ CanRecv
    /\ \E v \in Nonces, nok \in 0..1 :
          Deliver(PongMsg(v), HandlePong(Locked, PongMsg(v), nok))

RecvAddr ==
    /\ CanRecv
    /\ \E len \in AddrLens, nok \in 0..1 :
          Deliver(AddrMsg(len), HandleAddr(Locked, AddrMsg(len), nok))

RecvAddrV2 ==
    /\ CanRecv
    /\ \E len \in AddrLens, nok \in 0..1 :
          Deliver(AddrV2Msg(len), HandleAddr(Locked, AddrV2Msg(len), nok))

RecvBlock ==
    /\ CanRecv
    /\ \E b \in Blocks : Deliver(BlockMsg(b), HandleBlock(Locked, BlockMsg(b), 0))

RecvInv ==
    /\ CanRecv
    /\ \E invs \in InvLists : Deliver(InvMsg(invs), HandleInv(Locked, InvMsg(invs), 0))

RecvTx ==
    /\ CanRecv
    /\ Deliver(TxMsg, HandleTx(Locked, TxMsg, 0))

\* Some(NetworkMessage::Unknown { command, .. }), main.rs 261-268.  For
\* "gnop" the closure locks err_peer_state, which is the mutex it already
\* holds as state_lock (main.rs 117, 128): std's Mutex::lock never returns
\* there, it blocks for ever or panics.  Neither lets lines 264-266 run, and
\* neither lets the chain reach its final closure.
RecvUnknownCmd(cmd) ==
    /\ CanRecv
    /\ IF cmd = "gnop"
       THEN /\ pc' \in {"deadlocked", "panicked"}
            /\ peer_state' = Locked
            /\ UNCHANGED <<START_SHUTDOWN, REQUEST_BLOCK, sent, published, accepted, last_dup>>
       ELSE Deliver(UnknownMsg(cmd), HandleIgnored(Locked, UnknownMsg(cmd), 0))

RecvUnknown == \E cmd \in Commands : RecvUnknownCmd(cmd)

\* any other message, or None, main.rs 269
RecvOther ==
    /\ CanRecv
    /\ \E m \in {OtherMsg, NoMsg} : Deliver(m, HandleIgnored(Locked, m, 0))

\* the stream ends: the deadline of TimeoutStream::new_timeout, a
\* transport or decode error, or the peer closing, main.rs 126-127, 272-274
StreamEnd ==
    /\ pc = "reading"
    /\ pc' = "ended"
    /\ UNCHANGED <<START_SHUTDOWN, REQUEST_BLOCK, peer_state, sent, published, accepted, last_dup>>

\* a final test that forgets the block flag
AllFlagsButBlock(st) ==
    st.recvd_version /\ st.recvd_verack /\ st.recvd_pong /\ st.recvd_addrs

\* the test of the final closure, main.rs 281-282
AllFlags(st) ==
    st.recvd_version /\ st.recvd_verack /\ st.recvd_pong /\
    st.recvd_addrs /\ st.recvd_block

\* a promotion that looks at the addr flag before the pong flag
PromoteAddrFirst(st) ==
    IF st.fail_reason = "TimeoutDuringRequest" /\ st.recvd_version /\ st.recvd_verack
    THEN IF ~st.recvd_addrs THEN "TimeoutAwaitingAddr"
         ELSE IF ~st.recvd_pong THEN "TimeoutAwaitingPong"
         ELSE IF ~st.recvd_block THEN "TimeoutAwaitingBlock"
         ELSE st.fail_reason
    ELSE st.fail_reason

\* the promotion of TimeoutDuringRequest, main.rs 289-297
Promote(st) ==
    IF st.fail_reason = "TimeoutDuringRequest" /\ st.recvd_version /\ st.recvd_verack
    THEN IF ~st.recvd_pong THEN "TimeoutAwaitingPong"
         ELSE IF ~st.recvd_addrs THEN "TimeoutAwaitingAddr"
         ELSE IF ~st.recvd_block THEN "TimeoutAwaitingBlock"
         ELSE st.fail_reason
    ELSE st.fail_reason

\* the final closure, main.rs 275-307: publish Good with the services, or
\* the (promoted) failure reason with services 0; the assert of line 288
\* panics before anything is published
Finalize ==
    /\ pc = "ended"
    /\ IF AllFlags(peer_state)
       THEN /\ published' = Append(published,
                   [class |-> "Good", services |-> peer_state.node_services])
            /\ pc' = "done"
            /\ UNCHANGED peer_state
       ELSE IF peer_state.fail_reason = "Good"
       THEN /\ pc' = "assert_failed"
            /\ UNCHANGED <<peer_state, published>>
       ELSE /\ peer_state' = [peer_state EXCEPT !.fail_reason = Promote(peer_state)]
            /\ published' = Append(published,
                   [class |-> Promote(peer_state), services |-> 0])
            /\ pc' = "done"
    /\ UNCHANGED <<START_SHUTDOWN, REQUEST_BLOCK, sent,
                   accepted, last_dup>>

ScanNext ==
    \/ ScanNode
    \/ ConnectOk
    \/ ConnectFail
    \/ RecvVersion
    \/ RecvVerack
    \/ RecvPing
    \/ RecvPong
    \/ RecvAddr
    \/ RecvAddrV2
    \/ RecvBlock
    \/ RecvInv
    \/ RecvTx
    \/ RecvUnknown
    \/ RecvOther
    \/ StreamEnd
    \/ Finalize

(***************************************************************************)
(* The rolling bloom filter of bloom.rs.  The filter is an array of words, *)
(* each holding ELEMENTS_PER_VAR cells of GENERATION_BITS bits; a cell     *)
(* holds 0 or the generation that last wrote it.  The tables are scaled:   *)
(* a word has WordBits bits where the code has 64, and FILTER_SIZE, HASHES *)
(* and ROLL_COUNT are small; GENERATION_BITS is the value of the test      *)
(* build.                                                                  *)
(***************************************************************************)
GENERATION_BITS == 2
GENERATION_COUNT == 2^GENERATION_BITS - 1
WordBits == 8
ELEMENTS_PER_VAR == WordBits \div GENERATION_BITS
FILTER_SIZE == 16
HASHES == 2
ROLL_COUNT == 1

\* u64 arithmetic on a word of WordBits bits
RECURSIVE BitAndN(_, _, _)
BitAndN(a, b, n) ==
    IF n = 0 THEN 0
    ELSE (a % 2) * (b % 2) + 2 * BitAndN(a \div 2, b \div 2, n - 1)

BitAnd(a, b) == BitAndN(a, b, WordBits)
BitOr(a, b) == a + b - BitAnd(a, b)
BitNot(a) == (2^WordBits - 1) - a
Shl(a, s) == (a * 2^s) % 2^WordBits
Shr(a, s) == a \div 2^s

\* the items the callers insert and the keys RandomState::new() may draw
Items == {"x", "y", "z"}
Keys == {0, 1}

\* hasher.finish() for a key and an item: under key 0 the items fall into
\* three cells of two words; under key 1 the modulo of WordIndex folds the
\* value of x onto the cell of y, and z falls into the cell y has under key 0
Hash(key, item) ==
    IF key = 0
    THEN CASE item = "x" -> 0
           [] item = "y" -> ELEMENTS_PER_VAR + 1
           [] OTHER      -> 1
    ELSE CASE item = "x" -> FILTER_SIZE
           [] item = "y" -> 0
           [] OTHER      -> ELEMENTS_PER_VAR + 1
HashValues == {Hash(key, item) : key \in Keys, item \in Items}

WordIndex(idx) == (idx \div ELEMENTS_PER_VAR) % (FILTER_SIZE \div WordBits)
BitsShift(idx) == (idx % ELEMENTS_PER_VAR) * GENERATION_BITS

\* the generation stored in the cell of var at bits_shift
Element(var, bits_shift) ==
    Shr(BitAnd(var, Shl(GENERATION_COUNT, bits_shift)), bits_shift)

containsIn(b, item) ==
    \A k \in 1..HASHES :
        Element(b[WordIndex(Hash(hash_keys[k], item))],
                BitsShift(Hash(hash_keys[k], item))) # 0

contains(item) == containsIn(bits, item)

get_element_count == inserted_in_last_generations \o <<inserted_since_last_roll>>

\* the roll test at the head of insert, rolling as soon as the cap is reached
RollNeededAtCap ==
    \/ now - last_roll > RollDuration \div GENERATION_COUNT
    \/ inserted_since_last_roll >= ROLL_COUNT

RollNeeded ==
    \/ now - last_roll > RollDuration \div GENERATION_COUNT
    \/ inserted_since_last_roll > ROLL_COUNT

\* a generation counter that wraps to 0
NextGenerationFromZero(g) == (g + 1) % (GENERATION_COUNT + 1)

NextGeneration(g) ==
    IF g + 1 = GENERATION_COUNT + 1 THEN 1 ELSE g + 1

\* a roll that clears the generation that has just ended
remove_previous_generation(new_generation) ==
    IF new_generation = 1 THEN GENERATION_COUNT ELSE new_generation - 1

remove_generation(new_generation) == new_generation

\* the inner loop of a roll over the cells i, i + 1, ... of one word
RECURSIVE RollVar(_, _, _)
RollVar(var, i, remove) ==
    IF i = ELEMENTS_PER_VAR THEN var
    ELSE LET bits_shift == i * GENERATION_BITS
         IN RollVar(IF Element(var, bits_shift) = remove
                    THEN BitAnd(var, BitNot(Shl(GENERATION_COUNT, bits_shift)))
                    ELSE var,
                    i + 1, remove)

RollBits(b, remove) ==
    [idx \in 0..((FILTER_SIZE \div ELEMENTS_PER_VAR) - 1) |->
        RollVar(b[idx], 0, remove)]

\* a cell write that does not clear the cell first
WriteCellNoClear(byte, bits_shift, generation) ==
    BitOr(byte, Shl(generation, bits_shift))

WriteCell(byte, bits_shift, generation) ==
    BitOr(BitAnd(byte, BitNot(Shl(GENERATION_COUNT, bits_shift))),
          Shl(generation, bits_shift))

\* the second loop of insert, over the hashers k, k + 1, ...
RECURSIVE SetCells(_, _, _, _)
SetCells(b, item, k, generation) ==
    IF k > HASHES THEN b
    ELSE LET idx == Hash(hash_keys[k], item)
         IN SetCells([b EXCEPT ![WordIndex(idx)] =
                          WriteCell(@, BitsShift(idx), generation)],
                     item, k + 1, generation)

\* history: the cell a hash value selects, and the cells of an item
Cell(idx) == WordIndex(idx) * ELEMENTS_PER_VAR + (idx % ELEMENTS_PER_VAR)
CellsOf(item) == {Cell(Hash(hash_keys[k], item)) : k \in 1..HASHES}
CellWord(c) == c \div ELEMENTS_PER_VAR
CellShift(c) == (c % ELEMENTS_PER_VAR) * GENERATION_BITS
UsedCells == {Cell(v) : v \in HashValues}

Insert(item) ==
    LET roll == RollNeeded
        generation == IF roll THEN NextGeneration(current_generation)
                              ELSE current_generation
        rolled == IF roll THEN RollBits(bits, remove_generation(generation))
                          ELSE bits
    IN /\ current_generation' = generation
       /\ bits' = SetCells(rolled, item, 1, generation)
       /\ last_roll' = IF roll THEN now ELSE last_roll
       /\ inserted_in_last_generations' =
              IF roll THEN Tail(inserted_in_last_generations)
                               \o <<inserted_since_last_roll>>
                      ELSE inserted_in_last_generations
       /\ inserted_since_last_roll' =
              (IF roll THEN 0 ELSE inserted_since_last_roll) + 1
       /\ age' = [y \in Items |->
                    IF y = item THEN 0
                    ELSE IF roll /\ age[y] >= 0
                         THEN Min(age[y] + 1, GENERATION_COUNT)
                         ELSE age[y]]
       /\ last_writer' = [c \in UsedCells |->
                    IF c \in CellsOf(item) THEN item ELSE last_writer[c]]
       /\ n_inserts' = Min(n_inserts + 1, 2 * ROLL_COUNT + 4)
       /\ n_rolls' = IF roll THEN Min(n_rolls + 1, GENERATION_COUNT + 1)
                             ELSE n_rolls
       /\ UNCHANGED <<now, hash_keys>>

\* time passes between two calls
Tick ==
    /\ now < MaxTime
    /\ now' = now + 1
    /\ UNCHANGED <<last_roll, inserted_in_last_generations,
                   inserted_since_last_roll, current_generation, bits,
                   hash_keys, age, last_writer, n_inserts, n_rolls>>

\* RollingBloomFilter::new, with the keys RandomState::new() draws
NewFilter(keys) ==
    /\ now = 0
    /\ last_roll = 0
    /\ inserted_since_last_roll = 0
    /\ inserted_in_last_generations = [i \in 1..(GENERATION_COUNT - 1) |-> 0]
    /\ current_generation = 1
    /\ bits = [idx \in 0..(((FILTER_SIZE * GENERATION_BITS) \div WordBits) - 1) |-> 0]
    /\ hash_keys = keys
    /\ age = [y \in Items |-> -1]
    /\ last_writer = [c \in UsedCells |-> "none"]
    /\ n_inserts = 0
    /\ n_rolls = 0

(***************************************************************************)
(* The BGP client of bgp_client.rs: the routing table, the best-path       *)
(* queries and the session of connect_given_client.  Addresses are scaled: *)
(* an address has AddrOctets octets of OctetBits bits where an Ipv4Addr    *)
(* has 4 octets of 8 bits.  The v6 table goes through the same lookup_res! *)
(* macro with 128 bits and is not modelled.                                *)
(***************************************************************************)
PATH_SUFFIX_LEN == 3
OctetBits == 2
AddrOctets == 2
AddrBits == AddrOctets * OctetBits

Route(path_suffix, path_len, pref, med) ==
    [path_suffix |-> path_suffix, path_len |-> path_len, pref |-> pref,
     med |-> med]

\* HashMap::new(), HashMap::insert and HashMap::remove on a map kept as a
\* function
EmptyMap == [k \in {} |-> 0]
MapInsert(hm, k, v) == [x \in DOMAIN hm \cup {k} |-> IF x = k THEN v ELSE hm[x]]
MapRemove(hm, k) == [x \in DOMAIN hm \ {k} |-> hm[x]]

\* a lookup that keeps its host bits
ClearBitKeep(lookup, i) == lookup

\* lookup[lookup.len() - (i/8) - 1] &= !(1u8 << (i % 8))
ClearBit(lookup, i) ==
    LET pos == AddrOctets - (i \div OctetBits)
        bit == 2^(i % OctetBits)
    IN [lookup EXCEPT ![pos] = IF (@ \div bit) % 2 = 1 THEN @ - bit ELSE @]

\* the loop of lookup_res! from step i on: <<prefix length, path map>>
RECURSIVE lookup_res(_, _, _)
lookup_res(table, lookup, i) ==
    IF i = AddrBits THEN <<0, EmptyMap>>
    ELSE LET key == <<lookup, AddrBits - i>>
         IN IF key \in DOMAIN table /\ DOMAIN table[key] # {}
            THEN <<AddrBits - i, table[key]>>
            ELSE lookup_res(table, ClearBit(lookup, i), i + 1)

\* the paths come back as the map they are stored in: the Vec of the code
\* holds one reference per path id, in no particular order
get_route_attrs(ip) == lookup_res(v4_table, ip, 0)

\* withdraw and announce, for the three encodings of an NLRI
Nlri(kind, prefix, id) == [kind |-> kind, prefix |-> prefix, id |-> id]
PathId(r) == IF r.kind = "IP" THEN 0 ELSE r.id

withdraw(table, r) ==
    IF r.kind = "IP_MPLS" \/ r.prefix \notin DOMAIN table THEN table
    ELSE [table EXCEPT ![r.prefix] = MapRemove(@, PathId(r))]

announce(table, r, route) ==
    IF r.kind = "IP_MPLS" THEN table
    ELSE MapInsert(table, r.prefix,
             MapInsert(IF r.prefix \in DOMAIN table THEN table[r.prefix]
                       ELSE EmptyMap,
                       PathId(r), route))

\* the comparison of sort_unstable_by with its keys in another priority
SortsBeforeMedFirst(path_a, path_b) ==
    \/ path_a.med > path_b.med
    \/ path_a.med = path_b.med /\ path_a.path_len > path_b.path_len
    \/ path_a.med = path_b.med /\ path_a.path_len = path_b.path_len
           /\ path_a.pref < path_b.pref

\* the comparison of sort_unstable_by: path_a sorts strictly before path_b
SortsBefore(path_a, path_b) ==
    \/ path_a.pref < path_b.pref
    \/ path_a.pref = path_b.pref /\ path_a.path_len > path_b.path_len
    \/ path_a.pref = path_b.pref /\ path_a.path_len = path_b.path_len
           /\ path_a.med > path_b.med

\* the path ids path_vecs.pop() may give after the sort: sort_unstable_by
\* leaves the order of equal paths open
PrimaryIds(path_vecs) ==
    {p \in DOMAIN path_vecs :
        \A q \in DOMAIN path_vecs : ~SortsBefore(path_vecs[p], path_vecs[q])}

SuffixContains(route, asn) ==
    \E j \in 1..PATH_SUFFIX_LEN : route.path_suffix[j] = asn

\* a loop that takes the first nonzero ASN without looking at the secondaries
RECURSIVE asn_candidates_unchecked(_, _, _)
asn_candidates_unchecked(primary_route, secondaries, j) ==
    IF j = 0 THEN 0
    ELSE IF primary_route.path_suffix[j] # 0 THEN primary_route.path_suffix[j]
    ELSE asn_candidates_unchecked(primary_route, secondaries, j - 1)

\* the 'asn_candidates loop from suffix position j leftwards; 0 when the
\* loop ends without returning
RECURSIVE asn_candidates(_, _, _)
asn_candidates(primary_route, secondaries, j) ==
    IF j = 0 THEN 0
    ELSE LET asn == primary_route.path_suffix[j]
         IN IF asn # 0 /\ \A s \in secondaries : SuffixContains(s, asn)
            THEN asn
            ELSE asn_candidates(primary_route, secondaries, j - 1)

\* the second loop of get_asn
RECURSIVE rightmost_nonzero(_, _)
rightmost_nonzero(primary_route, j) ==
    IF j = 0 THEN 0
    ELSE IF primary_route.path_suffix[j] # 0 THEN primary_route.path_suffix[j]
    ELSE rightmost_nonzero(primary_route, j - 1)

\* get_asn once the sort has left the path with id p last
asn_of(path_vecs, p) ==
    LET primary_route == path_vecs[p]
        secondaries == {path_vecs[q] : q \in DOMAIN path_vecs \ {p}}
        common == asn_candidates(primary_route, secondaries, PATH_SUFFIX_LEN)
    IN IF common # 0 THEN common
       ELSE rightmost_nonzero(primary_route, PATH_SUFFIX_LEN)

\* the values get_asn and get_path may return for an address
get_asn(addr) ==
    LET path_vecs == get_route_attrs(addr)[2]
    IN IF DOMAIN path_vecs = {} THEN {0}
       ELSE {asn_of(path_vecs, p) : p \in PrimaryIds(path_vecs)}

get_path(addr) ==
    LET res == get_route_attrs(addr)
    IN IF DOMAIN res[2] = {}
       THEN {<<0, [j \in 1..PATH_SUFFIX_LEN |-> 0]>>}
       ELSE {<<res[1], res[2][p].path_suffix>> : p \in PrimaryIds(res[2])}

\* the attributes and AS path segments of an UPDATE
Attr(type, path, val) == [type |-> type, path |-> path, val |-> val]
Seg(kind, asns) == [kind |-> kind, asns |-> asns]

\* the loop over attrs.drain(..); an Option is a sequence of 0 or 1 element
RECURSIVE DrainAttrs(_, _)
DrainAttrs(attrs, acc) ==
    IF attrs = <<>> THEN acc
    ELSE LET attr == Head(attrs)
         IN DrainAttrs(Tail(attrs),
                CASE attr.type = "AS4_PATH" ->
                         [acc EXCEPT !.as4_path = <<attr.path>>]
                  [] attr.type = "AS_PATH" ->
                         [acc EXCEPT !.as_path = <<attr.path>>]
                  [] attr.type = "LOCAL_PREF" -> [acc EXCEPT !.pref = attr.val]
                  [] attr.type = "MULTI_EXIT_DISC" ->
                         [acc EXCEPT !.med = attr.val]
                  [] OTHER -> acc)

\* a pathvec that takes the members of AS_SET segments too
RECURSIVE PathVecWithSets(_)
PathVecWithSets(segments) ==
    IF segments = <<>> THEN <<>>
    ELSE Head(segments).asns \o PathVecWithSets(Tail(segments))

\* the loop over aspath.segments.drain(..)
RECURSIVE PathVec(_)
PathVec(segments) ==
    IF segments = <<>> THEN <<>>
    ELSE (IF Head(segments).kind = "AS_SEQUENCE" THEN Head(segments).asns
          ELSE <<>>) \o PathVec(Tail(segments))

\* pathvec.dedup_by(|a, b| (*a).eq(b))
RECURSIVE Dedup(_)
Dedup(pathvec) ==
    IF Len(pathvec) <= 1 THEN pathvec
    ELSE IF pathvec[1] = pathvec[2] THEN Dedup(Tail(pathvec))
    ELSE <<pathvec[1]>> \o Dedup(Tail(pathvec))

\* the loop that fills path_suffix from the end of pathvec
PathSuffix(pathvec) ==
    [j \in 1..PATH_SUFFIX_LEN |->
        LET pos == Len(pathvec) - (PATH_SUFFIX_LEN - j)
        IN IF pos >= 1 THEN pathvec[pos] ELSE 0]

\* map_attrs: the Option<Route> as a sequence of 0 or 1 route
map_attrs(attrs) ==
    LET acc == DrainAttrs(attrs, [as4_path |-> <<>>, as_path |-> <<>>,
                                  pref |-> 100, med |-> 0])
        aspath == IF acc.as4_path # <<>> THEN acc.as4_path ELSE acc.as_path
    IN IF aspath = <<>> THEN <<>>
       ELSE LET pathvec == PathVec(aspath[1])
            IN <<Route(PathSuffix(Dedup(pathvec)), Len(pathvec),
                       acc.pref, acc.med)>>

\* the two loops of the Message::Update arm
RECURSIVE WithdrawAll(_, _)
WithdrawAll(table, routes) ==
    IF routes = <<>> THEN table
    ELSE WithdrawAll(withdraw(table, Head(routes)), Tail(routes))

RECURSIVE AnnounceAll(_, _, _)
AnnounceAll(table, routes, path) ==
    IF routes = <<>> THEN table
    ELSE AnnounceAll(announce(table, Head(routes), path), Tail(routes), path)

Update(withdrawn_routes, attributes, announced_routes) ==
    [withdrawn_routes |-> withdrawn_routes, attributes |-> attributes,
     announced_routes |-> announced_routes]
NoUpdate == Update(<<>>, <<>>, <<>>)

\* history: no OPEN handled in this session
NoOpen == [seen |-> FALSE, keys |-> {}]

\* history: the <<prefix, path id>> in store after upd, given those before
StoredBy(keys, upd) ==
    LET EntriesOf(routes) ==
            {<<routes[i].prefix, PathId(routes[i])>> :
                 i \in {j \in 1..Len(routes) : routes[j].kind # "IP_MPLS"}}
    IN (keys \ EntriesOf(upd.withdrawn_routes))
           \cup (IF \E i \in 1..Len(upd.attributes) :
                        upd.attributes[i].type \in {"AS_PATH", "AS4_PATH"}
                 THEN EntriesOf(upd.announced_routes) ELSE {})

\* the Message::Update arm with its two loops in the other order
ApplyUpdateAnnounceFirst(table, upd) ==
    LET path == map_attrs(upd.attributes)
        announced == IF path = <<>> THEN table
                     ELSE AnnounceAll(table, upd.announced_routes, path[1])
    IN WithdrawAll(announced, upd.withdrawn_routes)

\* the Message::Update arm; upd arrives as upd.normalize() leaves it
ApplyUpdate(table, upd) ==
    LET withdrawn == WithdrawAll(table, upd.withdrawn_routes)
        path == map_attrs(upd.attributes)
    IN IF path = <<>> THEN withdrawn
       ELSE AnnounceAll(withdrawn, upd.announced_routes, path[1])

\* history: the number of routes a table holds
RECURSIVE RouteCount(_, _)
RouteCount(table, keys) ==
    IF keys = {} THEN 0
    ELSE LET key == CHOOSE k \in keys : TRUE
         IN Cardinality(DOMAIN table[key]) + RouteCount(table, keys \ {key})

\* mpsc::channel(10), scaled
CHANNEL_BUFFER == 2

\* sender.try_send takes the message: the receiver lives and a slot is free
TrySendOk == receiver_alive /\ sender < CHANNEL_BUFFER

\* Delay::new(Instant::now() + timeout / 4) fires
BgpDelayElapsed ==
    /\ bgp_pc = "delay"
    /\ bgp_pc' = "connecting"
    /\ last_try_send' = "none"
    /\ UNCHANGED <<v4_table, shutdown, sender, receiver_alive>>

\* TcpStream::connect succeeds: the channel and the writer task are made and
\* the OPEN goes into the empty channel
BgpConnectOk ==
    /\ bgp_pc = "connecting"
    /\ bgp_pc' = "established"
    /\ sender' = 1
    /\ receiver_alive' = TRUE
    /\ last_try_send' = "ok"
    /\ UNCHANGED <<v4_table, shutdown>>

\* the connect fails or times out; the chain goes on after timeout / 2
BgpConnectFail ==
    /\ bgp_pc = "connecting"
    /\ bgp_pc' = "closed"
    /\ last_try_send' = "none"
    /\ UNCHANGED <<v4_table, shutdown, sender, receiver_alive>>

\* the head of the for_each closure: a message arrives while shutdown is set
BgpShuttingDown ==
    /\ bgp_pc' = "closed"
    /\ last_try_send' = "none"
    /\ UNCHANGED <<v4_table, shutdown, sender, receiver_alive>>

\* an OPEN that leaves the tables as they are
BgpRecvOpenKeep ==
    /\ bgp_pc = "established"
    /\ IF shutdown THEN BgpShuttingDown
       ELSE /\ last_try_send' = "none"
            /\ UNCHANGED <<v4_table, shutdown, bgp_pc, sender, receiver_alive>>

BgpRecvOpen ==
    /\ bgp_pc = "established"
    /\ IF shutdown THEN BgpShuttingDown
       ELSE /\ v4_table' = EmptyMap
            /\ last_try_send' = "none"
            /\ UNCHANGED <<shutdown, bgp_pc, sender, receiver_alive>>

BgpRecvKeepAlive ==
    /\ bgp_pc = "established"
    /\ IF shutdown THEN BgpShuttingDown
       ELSE /\ sender' = IF TrySendOk THEN sender + 1 ELSE sender
            /\ last_try_send' = IF TrySendOk THEN "ok" ELSE "failed"
            /\ UNCHANGED <<v4_table, shutdown, bgp_pc, receiver_alive>>

BgpRecvUpdate(upd) ==
    /\ bgp_pc = "established"
    /\ IF shutdown THEN BgpShuttingDown
       ELSE /\ v4_table' = ApplyUpdate(v4_table, upd)
            /\ RouteCount(v4_table', DOMAIN v4_table') <= MaxRoutes
            /\ last_try_send' = "none"
            /\ UNCHANGED <<shutdown, bgp_pc, sender, receiver_alive>>

\* Message::Notification, Message::RouteRefresh
BgpRecvOther ==
    /\ bgp_pc = "established"
    /\ IF shutdown THEN BgpShuttingDown
       ELSE /\ last_try_send' = "none"
            /\ UNCHANGED <<v4_table, shutdown, bgp_pc, sender, receiver_alive>>

\* the stream ends: a decode error, the end of the connection or the
\* timeout of TimeoutStream::new_persistent
BgpStreamEnd ==
    /\ bgp_pc = "established"
    /\ bgp_pc' = "closed"
    /\ last_try_send' = "none"
    /\ UNCHANGED <<v4_table, shutdown, sender, receiver_alive>>

\* the final then without its load of shutdown
BgpReconnectRegardless ==
    /\ bgp_pc = "closed"
    /\ bgp_pc' = "delay"
    /\ sender' = 0
    /\ receiver_alive' = FALSE
    /\ last_try_send' = "none"
    /\ UNCHANGED <<v4_table, shutdown>>

\* the final then of the chain: reconnect unless shutdown is set
BgpReconnect ==
    /\ bgp_pc = "closed"
    /\ bgp_pc' = IF shutdown THEN "stopped" ELSE "delay"
    /\ sender' = 0
    /\ receiver_alive' = FALSE
    /\ last_try_send' = "none"
    /\ UNCHANGED <<v4_table, shutdown>>

\* the writer task: send_all takes a message from the channel
BgpWriterSend ==
    /\ bgp_pc = "established" /\ receiver_alive /\ sender > 0
    /\ sender' = sender - 1
    /\ last_try_send' = "none"
    /\ UNCHANGED <<v4_table, shutdown, bgp_pc, receiver_alive>>

\* the writer task: the sink fails and the task drops the receiver
BgpWriterFail ==
    /\ bgp_pc = "established" /\ receiver_alive
    /\ receiver_alive' = FALSE
    /\ last_try_send' = "none"
    /\ UNCHANGED <<v4_table, shutdown, bgp_pc, sender>>

\* BGPClient::disconnect
Disconnect ==
    /\ ~shutdown
    /\ shutdown' = TRUE
    /\ last_try_send' = "none"
    /\ UNCHANGED <<v4_table, bgp_pc, sender, receiver_alive>>

\* BGPClient::new
NewBgpClient ==
    /\ v4_table = EmptyMap
    /\ shutdown = FALSE
    /\ bgp_pc = "delay"
    /\ sender = 0
    /\ receiver_alive = FALSE
    /\ last_try_send = "none"

\* the prefixes <<octets, length>>, the addresses looked up and the NLRIs the
\* peer sends
Prefixes == {<<<<3, 0>>, 3>>, <<<<2, 0>>, 1>>, <<<<0, 0>>, 0>>}
Addrs == {<<hi, lo>> : hi \in 0..(2^OctetBits - 1), lo \in 0..(2^OctetBits - 1)}
Nlris ==
    {Nlri("IP", p, 0) : p \in Prefixes}
        \cup {Nlri("IP_WITH_PATH_ID", p, 1) : p \in Prefixes}
        \cup {Nlri("IP_MPLS", <<<<3, 0>>, 3>>, 0)}

\* the attribute lists of the routing table specification: routes that
\* differ in pref, in path_len and in med, with suffixes that share their
\* last ASN, an inner ASN or nothing, and a list without an AS path
RouteAttrLists ==
    {<<Attr("AS_PATH", <<Seg("AS_SEQUENCE", <<1, 4>>)>>, 0),
       Attr("LOCAL_PREF", <<>>, 200)>>,
     <<Attr("MULTI_EXIT_DISC", <<>>, 5),
       Attr("AS_PATH", <<Seg("AS_SEQUENCE", <<1, 4>>)>>, 0)>>,
     <<Attr("AS_PATH", <<Seg("AS_SEQUENCE", <<2, 4>>)>>, 0)>>,
     <<Attr("AS_PATH", <<Seg("AS_SEQUENCE", <<1, 1, 2, 2, 3>>)>>, 0)>>,
     <<Attr("AS_PATH", <<Seg("AS_SEQUENCE", <<6>>)>>, 0)>>,
     <<Attr("AS_PATH", <<>>, 0)>>,
     <<Attr("LOCAL_PREF", <<>>, 200), Attr("ORIGIN", <<>>, 0)>>}

Updates ==
    {Update(<<>>, a, <<n>>) : a \in RouteAttrLists, n \in Nlris}
        \cup {Update(<<w>>, <<>>, <<>>) : w \in Nlris}

\* the attribute lists of the session specification: AS paths with
\* prepends, with fewer and more than PATH_SUFFIX_LEN ASNs, in one or
\* several segments, with AS_SETs, as AS_PATH and as AS4_PATH
SessionAttrLists ==
    RouteAttrLists \cup
    {<<Attr("AS_PATH", <<Seg("AS_SEQUENCE", <<1>>), Seg("AS_SET", <<7>>),
                         Seg("AS_SEQUENCE", <<1, 3>>)>>, 0),
       Attr("MULTI_EXIT_DISC", <<>>, 5)>>,
     <<Attr("AS_PATH", <<Seg("AS_SEQUENCE", <<9, 9>>)>>, 0),
       Attr("AS4_PATH", <<Seg("AS_SEQUENCE", <<5, 1>>),
                          Seg("AS_SEQUENCE", <<2, 3>>)>>, 0)>>,
     <<Attr("AS_PATH", <<Seg("AS_SEQUENCE", <<5, 5, 1, 2, 2>>),
                         Seg("AS_SEQUENCE", <<2, 3, 3>>)>>, 0)>>,
     <<Attr("AS_PATH", <<Seg("AS_SET", <<7, 8>>)>>, 0)>>}

SessionUpdates ==
    LET nlris == {Nlri("IP", <<<<3, 0>>, 3>>, 0),
                  Nlri("IP_WITH_PATH_ID", <<<<3, 0>>, 3>>, 1)}
    IN {Update(<<>>, a, <<n>>) : a \in SessionAttrLists, n \in nlris}
           \cup {Update(<<w>>, <<>>, <<>>) : w \in nlris}

\* the UPDATEs of the update specification: at most one withdrawn and up to
\* two announced NLRIs of every encoding, with two AS paths or none
MixedNlris ==
    {Nlri("IP", <<<<3, 0>>, 3>>, 0), Nlri("IP_WITH_PATH_ID", <<<<3, 0>>, 3>>, 1),
     Nlri("IP", <<<<2, 0>>, 1>>, 0), Nlri("IP_MPLS", <<<<2, 0>>, 1>>, 0)}
MixedWithdrawn == {<<>>} \cup {<<n>> : n \in MixedNlris}
MixedAnnounced ==
    MixedWithdrawn \cup
    {<<Nlri("IP", <<<<3, 0>>, 3>>, 0), Nlri("IP", <<<<2, 0>>, 1>>, 0)>>,
     <<Nlri("IP_WITH_PATH_ID", <<<<3, 0>>, 3>>, 1),
       Nlri("IP", <<<<3, 0>>, 3>>, 0)>>,
     <<Nlri("IP_MPLS", <<<<2, 0>>, 1>>, 0),
       Nlri("IP_WITH_PATH_ID", <<<<3, 0>>, 3>>, 1)>>}
MixedAttrLists ==
    {<<Attr("AS_PATH", <<Seg("AS_SEQUENCE", <<1, 4>>)>>, 0),
       Attr("LOCAL_PREF", <<>>, 200)>>,
     <<Attr("AS_PATH", <<Seg("AS_SEQUENCE", <<6>>)>>, 0)>>,
     <<Attr("LOCAL_PREF", <<>>, 200), Attr("ORIGIN", <<>>, 0)>>}
MixedUpdates ==
    {Update(w, a, n) : w \in MixedWithdrawn, a \in MixedAttrLists,
                       n \in MixedAnnounced}

(***************************************************************************)
(* MemoryLimitingAllocator, main.rs 60-80.  The cap is scaled; a thread    *)
(* takes one atomic operation on TOTAL_MEM_ALLOCD per step, and            *)
(* System.alloc may itself return null.                                    *)
(***************************************************************************)
TOTAL_MEM_LIMIT_BYTES == 4
LayoutSizes == 1..(TOTAL_MEM_LIMIT_BYTES + 1)
Threads == 1..AllocThreads

\* a test that leaves the new allocation out of the sum
OverLimitBefore(old, len) == old > TOTAL_MEM_LIMIT_BYTES

\* fetch_add(len) + len > TOTAL_MEM_LIMIT_BYTES
OverLimit(old, len) == old + len > TOTAL_MEM_LIMIT_BYTES

\* alloc up to its fetch_add: an oversized layout returns null at once
AllocFetchAdd(t, len) ==
    /\ alloc_pc[t] = "idle"
    /\ IF len > TOTAL_MEM_LIMIT_BYTES
       THEN UNCHANGED <<TOTAL_MEM_ALLOCD, alloc_pc, alloc_len, alloc_old>>
       ELSE /\ TOTAL_MEM_ALLOCD' = TOTAL_MEM_ALLOCD + len
            /\ alloc_len' = [alloc_len EXCEPT ![t] = len]
            /\ alloc_old' = [alloc_old EXCEPT ![t] = TOTAL_MEM_ALLOCD]
            /\ alloc_pc' = [alloc_pc EXCEPT ![t] = "added"]
    /\ UNCHANGED live

\* the rest of alloc: fetch_sub and null, or System.alloc(layout), which
\* gives a pointer or null
AllocReturn(t) ==
    /\ alloc_pc[t] = "added"
    /\ alloc_pc' = [alloc_pc EXCEPT ![t] = "idle"]
    /\ alloc_len' = [alloc_len EXCEPT ![t] = 0]
    /\ alloc_old' = [alloc_old EXCEPT ![t] = 0]
    /\ IF OverLimit(alloc_old[t], alloc_len[t])
       THEN /\ TOTAL_MEM_ALLOCD' = TOTAL_MEM_ALLOCD - alloc_len[t]
            /\ UNCHANGED live
       ELSE /\ \/ live' = [live EXCEPT ![alloc_len[t]] = @ + 1]
               \/ UNCHANGED live
            /\ UNCHANGED TOTAL_MEM_ALLOCD

\* dealloc up to System.dealloc(ptr, layout)
DeallocFree(t, len) ==
    /\ alloc_pc[t] = "idle"
    /\ live[len] > 0
    /\ live' = [live EXCEPT ![len] = @ - 1]
    /\ alloc_pc' = [alloc_pc EXCEPT ![t] = "freed"]
    /\ alloc_len' = [alloc_len EXCEPT ![t] = len]
    /\ UNCHANGED <<TOTAL_MEM_ALLOCD, alloc_old>>

\* the fetch_sub of dealloc
DeallocFetchSub(t) ==
    /\ alloc_pc[t] = "freed"
    /\ TOTAL_MEM_ALLOCD' = TOTAL_MEM_ALLOCD - alloc_len[t]
    /\ alloc_pc' = [alloc_pc EXCEPT ![t] = "idle"]
    /\ alloc_len' = [alloc_len EXCEPT ![t] = 0]
    /\ UNCHANGED <<live, alloc_old>>

\* static TOTAL_MEM_ALLOCD: AtomicUsize = AtomicUsize::new(0)
NewAllocator ==
    /\ TOTAL_MEM_ALLOCD = 0
    /\ live = [n \in 1..TOTAL_MEM_LIMIT_BYTES |-> 0]
    /\ alloc_pc = [t \in Threads |-> "idle"]
    /\ alloc_len = [t \in Threads |-> 0]
    /\ alloc_old = [t \in Threads |-> 0]

(***************************************************************************)
(* The task graph of main.rs: the trusted-peer session starts the scan and *)
(* the poll_dnsseeds loop at the first challenge block, the loop's last    *)
(* iteration calls BGPClient::disconnect.                                  *)
(***************************************************************************)

\* the `q` command of the command-line reader
ReaderQuit ==
    /\ ~START_SHUTDOWN
    /\ START_SHUTDOWN' = TRUE
    /\ UNCHANGED <<REQUEST_BLOCK, driverVars, bgpVars>>

\* Peer::new of make_trusted_conn resolves or fails
TrustedConnect ==
    /\ trusted_pc = "connecting"
    /\ trusted_pc' \in {"reading", "closed"}
    /\ UNCHANGED <<START_SHUTDOWN, REQUEST_BLOCK, SCANNING, dns_pc, bgpVars>>

\* a message of the trusted peer other than the challenge block; the
\* try_send of its arm may fail
TrustedRecvOther ==
    /\ trusted_pc = "reading"
    /\ IF START_SHUTDOWN THEN trusted_pc' = "closed"
       ELSE trusted_pc' \in {"reading", "closed"}
    /\ UNCHANGED <<START_SHUTDOWN, REQUEST_BLOCK, SCANNING, dns_pc, bgpVars>>

\* Some(NetworkMessage::Block(block)) at the challenge height
TrustedRecvBlock ==
    /\ trusted_pc = "reading"
    /\ IF START_SHUTDOWN
       THEN /\ trusted_pc' = "closed"
            /\ UNCHANGED <<REQUEST_BLOCK, SCANNING, dns_pc>>
       ELSE /\ \E request \in Challenges \ {GenesisChallenge} :
                   REQUEST_BLOCK' = request
            /\ SCANNING' = TRUE
            /\ dns_pc' = IF ~SCANNING THEN "polling" ELSE dns_pc
            /\ UNCHANGED trusted_pc
    /\ UNCHANGED <<START_SHUTDOWN, bgpVars>>

\* the stream of the trusted peer ends or times out
TrustedStreamEnd ==
    /\ trusted_pc = "reading"
    /\ trusted_pc' = "closed"
    /\ UNCHANGED <<START_SHUTDOWN, REQUEST_BLOCK, SCANNING, dns_pc, bgpVars>>

\* the final then of make_trusted_conn: reconnect unless shutdown is set
TrustedReconnect ==
    /\ trusted_pc = "closed"
    /\ trusted_pc' = IF START_SHUTDOWN THEN "stopped" ELSE "connecting"
    /\ UNCHANGED <<START_SHUTDOWN, REQUEST_BLOCK, SCANNING, dns_pc, bgpVars>>

\* one iteration of poll_dnsseeds: the Delay of 60 s, write_dns and
\* save_data, then the next iteration or bgp_client.disconnect()
PollDnsSeeds ==
    /\ dns_pc = "polling"
    /\ IF ~START_SHUTDOWN
       THEN UNCHANGED <<dns_pc, bgpVars>>
       ELSE /\ dns_pc' = "done"
            /\ shutdown' = TRUE
            /\ last_try_send' = "none"
            /\ UNCHANGED <<v4_table, bgp_pc, sender, receiver_alive>>
    /\ UNCHANGED <<START_SHUTDOWN, REQUEST_BLOCK, SCANNING, trusted_pc>>

\* the BGP session next to the task graph
DriverBgp ==
    /\ \/ BgpDelayElapsed
       \/ BgpConnectOk
       \/ BgpConnectFail
       \/ BgpRecvOpen
       \/ BgpRecvKeepAlive
       \/ BgpRecvOther
       \/ BgpStreamEnd
       \/ BgpReconnect
       \/ BgpWriterSend
       \/ BgpWriterFail
    /\ UNCHANGED <<START_SHUTDOWN, REQUEST_BLOCK, driverVars>>

\* main: make_trusted_conn is called, nothing scans yet
NewDriver ==
    /\ SCANNING = FALSE
    /\ trusted_pc = "connecting"
    /\ dns_pc = "none"

(***************************************************************************)
(* The header chain of the trusted peer: make_trusted_conn, main.rs        *)
(* 362-469, over the statics main builds at 477-482.  A header is known by *)
(* its hash, which fixes its prev_blockhash; the depth 216 of the          *)
(* challenge block is scaled.                                              *)
(***************************************************************************)

\* the 216 of top_height - 216 and HIGHEST_HEADER.1 - 216, scaled
CHALLENGE_DEPTH == 2

\* genesis_block(Network::Bitcoin).block_hash()
GenesisHash == "genesis_hash"

\* the headers the peer can send: a chain h1, h2, h3 on the genesis block
\* and a fork f2, f3 on h1
HeaderHashes == {"h1", "h2", "h3", "f2", "f3"}
\* headers[i].prev_blockhash of the header with the given hash
prev_blockhash(hash) ==
    CASE hash = "h1" -> GenesisHash
      [] hash = "h2" -> "h1"
      [] hash = "h3" -> "h2"
      [] hash = "f2" -> "h1"
      [] hash = "f3" -> "f2"

\* the blocks the peer can send; b1 and b1x share the header h1, the header
\* of loose is never sent
TrustedBlocks == {"genesis", "b1", "b1x", "b2", "bf2", "loose"}
\* block.block_hash()
block_hash(block) ==
    CASE block = "genesis" -> GenesisHash
      [] block = "b1" -> "h1"
      [] block = "b1x" -> "h1"
      [] block = "b2" -> "h2"
      [] block = "bf2" -> "f2"
      [] block = "loose" -> "loose_hash"

\* the HEADERS batches: empty, linked, out of order and with a link broken
\* at the second or at the third header
HeaderBatches ==
    {<<>>, <<"h1">>, <<"h2">>, <<"h3">>, <<"f2">>, <<"f3">>,
     <<"h1", "h2">>, <<"h2", "h3">>, <<"f2", "f3">>, <<"h1", "f2">>,
     <<"h1", "h3">>, <<"h2", "h1">>,
     <<"h1", "h2", "h3">>, <<"h1", "f2", "f3">>,
     <<"f2", "f3", "h1">>, <<"h2", "h3", "h2">>, <<"h1", "h2", "f3">>}

\* ver.start_height of the trusted peer's VERSION
TrustedStartHeights == {-1, 0, 3}

\* the messages the driver sends and the messages it handles
Sent(type, hashes) == [type |-> type, hashes |-> hashes]
Handled(type, headers, block) ==
    [type |-> type, headers |-> headers, block |-> block]
NoneHandled == Handled("none", <<>>, "")

\* a GetHeadersMessage that always starts at the genesis block
GetHeadersFromGenesis(tip) == Sent("getheaders", <<GenesisHash>>)

\* GetHeadersMessage with locator_hashes vec![HIGHEST_HEADER.0]
GetHeaders(tip) == Sent("getheaders", <<tip[1]>>)

\* what one run of the for_each closure leaves: the maps, the tip, the
\* local starting_height, the messages queued, where the chain stands
Outcome(hm, gm, tip, start, out, to) ==
    [hm |-> hm, gm |-> gm, tip |-> tip, start |-> start, out |-> out, to |-> to]

\* the messages of a closure that calls try_send for each of out in turn
\* and returns future::err at the first that fails (the fail-th; 0: none)
Queue(out, fail) ==
    IF fail = 0 \/ fail > Len(out)
    THEN [queued |-> out, failed |-> FALSE]
    ELSE [queued |-> SubSeq(out, 1, fail - 1), failed |-> TRUE]

\* a closure that changes nothing but queues out
Sending(out, fail) ==
    LET q == Queue(out, fail)
    IN Outcome(HEADER_MAP, HEIGHT_MAP, HIGHEST_HEADER, starting_height,
               q.queued, IF q.failed THEN "closed" ELSE "reading")

\* the loop of the Headers arm from header i on, main.rs 406-413: the maps,
\* and whether a header did not chain to its predecessor
RECURSIVE RecordHeaders(_, _, _, _, _)
RecordHeaders(hm, gm, headers, height, i) ==
    IF i > Len(headers) THEN [hm |-> hm, gm |-> gm, broken |-> FALSE]
    ELSE IF i < Len(headers) /\ prev_blockhash(headers[i + 1]) # headers[i]
    THEN [hm |-> hm, gm |-> gm, broken |-> TRUE]
    ELSE RecordHeaders(MapInsert(hm, headers[i], height + i),
                       MapInsert(gm, height + i, headers[i]),
                       headers, height, i + 1)

\* top_height >= starting_height as u64: a negative i32 becomes a u64 above
\* every height
ReachedStart(top_height, start) == start >= 0 /\ top_height >= start

\* a tip that takes the hash of the batch's first header
NewTipOfFirst(headers, top_height) == <<headers[1], top_height>>

\* (headers.last().unwrap().block_hash(), top_height)
NewTip(headers, top_height) == <<headers[Len(headers)], top_height>>

\* the Headers arm, main.rs 398-438
TrustedHeaders(headers, fail) ==
    IF headers = <<>> THEN Sending(<<>>, 0)
    ELSE IF prev_blockhash(headers[1]) \notin DOMAIN HEADER_MAP
    THEN Sending(<<GetHeaders(HIGHEST_HEADER)>>, fail)
    ELSE
    LET height == HEADER_MAP[prev_blockhash(headers[1])]
        rec == RecordHeaders(HEADER_MAP, HEIGHT_MAP, headers, height, 1)
        top_height == height + Len(headers)
        tip == NewTip(headers, top_height)
        wanted == ReachedStart(top_height, starting_height)
    IN IF rec.broken
       THEN Outcome(rec.hm, rec.gm, HIGHEST_HEADER, starting_height, <<>>,
                    "closed")
       ELSE IF wanted /\ (top_height < CHALLENGE_DEPTH
                          \/ top_height - CHALLENGE_DEPTH \notin DOMAIN rec.gm)
       THEN Outcome(rec.hm, rec.gm, tip, starting_height, <<>>, "panicked")
       ELSE LET getdata ==
                    IF wanted
                    THEN <<Sent("getdata",
                                <<rec.gm[top_height - CHALLENGE_DEPTH]>>)>>
                    ELSE <<>>
                q == Queue(getdata \o <<GetHeaders(tip)>>, fail)
            IN Outcome(rec.hm, rec.gm, tip, starting_height, q.queued,
                       IF q.failed THEN "closed" ELSE "reading")

\* the Version arm, main.rs 374-379
TrustedVersion(start_height, fail) ==
    LET q == Queue(<<Sent("verack", <<>>)>>, fail)
    IN Outcome(HEADER_MAP, HEIGHT_MAP, HIGHEST_HEADER,
               IF q.failed THEN starting_height ELSE start_height,
               q.queued, IF q.failed THEN "closed" ELSE "reading")

\* the Verack arm, main.rs 380-394
TrustedVerack(fail) ==
    Sending(<<Sent("sendheaders", <<>>), GetHeaders(HIGHEST_HEADER),
              Sent("getaddr", <<>>)>>, fail)

\* the head of the for_each closure and what every arm's run leaves
TrustedStep(msg, outcome) ==
    /\ trusted_pc = "reading"
    /\ last_msg' = msg
    /\ IF START_SHUTDOWN
       THEN /\ trusted_pc' = "closed"
            /\ trusted_sent' = <<>>
            /\ UNCHANGED <<HEADER_MAP, HEIGHT_MAP, HIGHEST_HEADER,
                           starting_height>>
       ELSE /\ HEADER_MAP' = outcome.hm
            /\ HEIGHT_MAP' = outcome.gm
            /\ HIGHEST_HEADER' = outcome.tip
            /\ starting_height' = outcome.start
            /\ trusted_sent' = outcome.out
            /\ trusted_pc' = outcome.to
    /\ UNCHANGED <<START_SHUTDOWN, REQUEST_BLOCK, SCANNING, dns_pc, n_started,
                   n_published>>

TrustedRecvVersion ==
    \E start_height \in TrustedStartHeights, fail \in 0..1 :
        TrustedStep(Handled("version", <<>>, ""),
                    TrustedVersion(start_height, fail))

TrustedRecvVerack ==
    \E fail \in 0..3 :
        TrustedStep(Handled("verack", <<>>, ""), TrustedVerack(fail))

TrustedRecvHeaders ==
    \E headers \in HeaderBatches, fail \in 0..2 :
        TrustedStep(Handled("headers", headers, ""),
                    TrustedHeaders(headers, fail))

\* the Addr arm, the Ping arm with its try_send, and every other message
TrustedRecvIgnored ==
    \E fail \in 0..1 :
        TrustedStep(Handled("other", <<>>, ""),
                    Sending(<<Sent("pong", <<>>)>>, fail))

\* HIGHEST_HEADER.1 - 216 on a u64: below the depth the subtraction panics
\* where overflow checks are compiled in and wraps to a height no header has
\* where they are not
ChallengeHeightOf(tip_height) ==
    IF tip_height >= CHALLENGE_DEPTH
    THEN {<<"height", tip_height - CHALLENGE_DEPTH>>}
    ELSE {<<"panic", 0>>, <<"wrapped", 0>>}

\* a Block arm that takes the block at the tip for the challenge
IsChallengeAtTip(height, target) == height = HIGHEST_HEADER[2]

\* height == HIGHEST_HEADER.1 - 216
IsChallenge(height, target) == target[1] = "height" /\ height = target[2]

\* a swap that always reports false
SwapScanningAlways(old) == FALSE

\* SCANNING.swap(true, Ordering::SeqCst): the value it returns
SwapScanning(old) == old

\* the Block arm, main.rs 439-450
TrustedRecvChainBlock ==
    \E block \in TrustedBlocks :
        /\ trusted_pc = "reading"
        /\ last_msg' = Handled("block", <<>>, block)
        /\ trusted_sent' = <<>>
        /\ IF START_SHUTDOWN
           THEN /\ trusted_pc' = "closed"
                /\ UNCHANGED <<REQUEST_BLOCK, SCANNING, dns_pc, n_started,
                               n_published>>
           ELSE IF block_hash(block) \notin DOMAIN HEADER_MAP
           THEN /\ trusted_pc' = "panicked"
                /\ UNCHANGED <<REQUEST_BLOCK, SCANNING, dns_pc, n_started,
                               n_published>>
           ELSE \E target \in ChallengeHeightOf(HIGHEST_HEADER[2]) :
                    LET hash == block_hash(block)
                        height == HEADER_MAP[hash]
                    IN IF target[1] = "panic"
                       THEN /\ trusted_pc' = "panicked"
                            /\ UNCHANGED <<REQUEST_BLOCK, SCANNING, dns_pc,
                                           n_started, n_published>>
                       ELSE IF IsChallenge(height, target)
                       THEN /\ REQUEST_BLOCK' = <<height, hash, block>>
                            /\ n_published' = Min(n_published + 1, 2)
                            /\ SCANNING' = TRUE
                            /\ IF ~SwapScanning(SCANNING)
                               THEN /\ n_started' = n_started + 1
                                    /\ dns_pc' = "polling"
                               ELSE UNCHANGED <<n_started, dns_pc>>
                            /\ UNCHANGED trusted_pc
                       ELSE UNCHANGED <<REQUEST_BLOCK, SCANNING, dns_pc,
                                        n_started, n_published, trusted_pc>>
        /\ UNCHANGED <<START_SHUTDOWN, HEADER_MAP, HEIGHT_MAP, HIGHEST_HEADER,
                       starting_height>>

\* a step of the chain of make_trusted_conn that runs no arm
ChainKept ==
    /\ last_msg' = NoneHandled
    /\ trusted_sent' = <<>>
    /\ UNCHANGED <<HEADER_MAP, HEIGHT_MAP, HIGHEST_HEADER, n_started,
                   n_published>>

\* main.rs 477-481 and the first make_trusted_conn
NewChain ==
    /\ HEADER_MAP = MapInsert(EmptyMap, GenesisHash, 0)
    /\ HEIGHT_MAP = MapInsert(EmptyMap, 0, GenesisHash)
    /\ HIGHEST_HEADER = <<GenesisHash, 0>>
    /\ starting_height = 0
    /\ trusted_sent = <<>>
    /\ last_msg = NoneHandled
    /\ n_started = 0
    /\ n_published = 0

(***************************************************************************)
(* The specifications.  Each takes the steps of one subsystem and leaves   *)
(* the others as they are constructed.                                     *)
(***************************************************************************)
NoKeys == [k \in 1..HASHES |-> 0]

ScanIdle ==
    /\ START_SHUTDOWN = FALSE
    /\ REQUEST_BLOCK = GenesisChallenge
    /\ pc = "scheduled"
    /\ peer_state = NewPeerState(GenesisChallenge, 0)
    /\ sent = {}
    /\ published = <<>>
    /\ accepted = <<>>
    /\ last_dup = NoDup

\* everything but the scan session and the bloom filter, as main builds it
RestIdle ==
    /\ NewBgpClient /\ last_update = NoUpdate /\ fresh = NoOpen
    /\ NewAllocator
    /\ NewDriver
    /\ NewChain

\* the process as main builds it
Constructed == ScanIdle /\ NewFilter(NoKeys) /\ RestIdle

BloomInit ==
    /\ \E keys \in [1..HASHES -> Keys] : NewFilter(keys)
    /\ ScanIdle
    /\ RestIdle

otherThanBloom ==
    <<scanVars, bgpVars, bgpHist, allocVars, driverVars, chainVars>>

BloomNext ==
    \/ \E item \in Items : Insert(item) /\ UNCHANGED otherThanBloom
    \/ Tick /\ UNCHANGED otherThanBloom

BloomSpec == BloomInit /\ [][BloomNext]_vars

ScanInit ==
    /\ START_SHUTDOWN \in BOOLEAN
    /\ REQUEST_BLOCK \in Challenges
    /\ pc = "scheduled"
    /\ peer_state = NewPeerState(GenesisChallenge, 0)
    /\ sent = {}
    /\ published = <<>>
    /\ accepted = <<>>
    /\ last_dup = NoDup
    /\ NewFilter(NoKeys)
    /\ RestIdle

otherThanScan ==
    <<bloomVars, bgpVars, bgpHist, allocVars, driverVars, chainVars>>

ScanSpec ==
    /\ ScanInit
    /\ [][ScanNext /\ UNCHANGED otherThanScan]_vars

\* The executor polls a ready future, the connect attempt resolves and the
\* deadline of the stream expires: the steps the runtime takes by itself.
FairScanSpec ==
    /\ ScanSpec
    /\ WF_vars(ScanNode /\ UNCHANGED otherThanScan)
    /\ WF_vars((ConnectOk \/ ConnectFail) /\ UNCHANGED otherThanScan)
    /\ WF_vars(StreamEnd /\ UNCHANGED otherThanScan)
    /\ WF_vars(Finalize /\ UNCHANGED otherThanScan)

otherThanBgp == <<scanVars, bloomVars, allocVars, driverVars, chainVars>>

\* the routing table under the UPDATEs and OPENs of a session
RouteNext ==
    \/ BgpDelayElapsed /\ UNCHANGED <<otherThanBgp, bgpHist>>
    \/ BgpConnectOk /\ UNCHANGED <<otherThanBgp, bgpHist>>
    \/ BgpRecvOpen /\ UNCHANGED <<otherThanBgp, bgpHist>>
    \/ \E upd \in Updates :
           BgpRecvUpdate(upd) /\ UNCHANGED <<otherThanBgp, bgpHist>>

RouteSpec == Constructed /\ [][RouteNext]_vars

\* a step of the session that handles no UPDATE
NoUpdateStep == last_update' = NoUpdate /\ UNCHANGED <<fresh, otherThanBgp>>

\* the step that starts a session: no OPEN of the peer handled yet
NewSessionStep ==
    last_update' = NoUpdate /\ fresh' = NoOpen /\ UNCHANGED otherThanBgp

\* the session of connect_given_client with its writer task and disconnect
BgpNext ==
    \/ BgpDelayElapsed /\ NoUpdateStep
    \/ BgpConnectOk /\ NewSessionStep
    \/ BgpConnectFail /\ NoUpdateStep
    \/ /\ BgpRecvOpen
       /\ last_update' = NoUpdate
       /\ fresh' = IF shutdown THEN fresh ELSE [seen |-> TRUE, keys |-> {}]
       /\ UNCHANGED otherThanBgp
    \/ BgpRecvKeepAlive /\ NoUpdateStep
    \/ \E upd \in SessionUpdates :
           /\ BgpRecvUpdate(upd)
           /\ last_update' = IF shutdown THEN NoUpdate ELSE upd
           /\ fresh' = IF shutdown THEN fresh
                       ELSE [fresh EXCEPT !.keys = StoredBy(@, upd)]
           /\ UNCHANGED otherThanBgp
    \/ BgpRecvOther /\ NoUpdateStep
    \/ BgpStreamEnd /\ NoUpdateStep
    \/ BgpReconnect /\ NoUpdateStep
    \/ BgpWriterSend /\ NoUpdateStep
    \/ BgpWriterFail /\ NoUpdateStep
    \/ Disconnect /\ NoUpdateStep

BgpSpec == Constructed /\ [][BgpNext]_vars

\* The runtime runs the chain of connect_given_client: the Delay fires, the
\* connect resolves or times out, the final closure runs.  What the peer
\* sends and whether disconnect is called is not promised.
FairBgpSpec ==
    /\ BgpSpec
    /\ WF_vars(BgpDelayElapsed /\ NoUpdateStep)
    /\ WF_vars(\/ BgpConnectOk /\ NewSessionStep
               \/ BgpConnectFail /\ NoUpdateStep)
    /\ WF_vars(BgpReconnect /\ NoUpdateStep)

\* a session under UPDATEs that withdraw and announce together
UpdateNext ==
    \/ BgpDelayElapsed /\ NoUpdateStep
    \/ BgpConnectOk /\ NoUpdateStep
    \/ \E upd \in MixedUpdates :
           /\ BgpRecvUpdate(upd)
           /\ last_update' = upd
           /\ UNCHANGED <<fresh, otherThanBgp>>

UpdateSpec == Constructed /\ [][UpdateNext]_vars

otherThanAlloc ==
    <<scanVars, bloomVars, bgpVars, bgpHist, driverVars, chainVars>>

\* the threads of the process in alloc and dealloc
AllocNext ==
    \/ \E t \in Threads, len \in LayoutSizes :
           AllocFetchAdd(t, len) /\ UNCHANGED otherThanAlloc
    \/ \E t \in Threads : AllocReturn(t) /\ UNCHANGED otherThanAlloc
    \/ \E t \in Threads, len \in 1..TOTAL_MEM_LIMIT_BYTES :
           DeallocFree(t, len) /\ UNCHANGED otherThanAlloc
    \/ \E t \in Threads : DeallocFetchSub(t) /\ UNCHANGED otherThanAlloc

AllocSpec == Constructed /\ [][AllocNext]_vars

otherThanDriver ==
    <<pc, peer_state, sent, published, accepted, last_dup, bloomVars,
      bgpHist, allocVars, chainVars>>

\* the trusted-peer session, the poll_dnsseeds loop, the reader and the BGP
\* session
DriverNext ==
    \/ ReaderQuit /\ UNCHANGED otherThanDriver
    \/ TrustedConnect /\ UNCHANGED otherThanDriver
    \/ TrustedRecvOther /\ UNCHANGED otherThanDriver
    \/ TrustedRecvBlock /\ UNCHANGED otherThanDriver
    \/ TrustedStreamEnd /\ UNCHANGED otherThanDriver
    \/ TrustedReconnect /\ UNCHANGED otherThanDriver
    \/ PollDnsSeeds /\ UNCHANGED otherThanDriver
    \/ DriverBgp /\ UNCHANGED otherThanDriver

DriverSpec == Constructed /\ [][DriverNext]_vars

\* The runtime of block_on_all runs every spawned future: timers fire,
\* connects resolve or time out, streams time out, closures that are ready
\* run.  What the peers and the operator send is not promised.
FairDriverSpec ==
    /\ DriverSpec
    /\ WF_vars(TrustedConnect /\ UNCHANGED otherThanDriver)
    /\ WF_vars(TrustedStreamEnd /\ UNCHANGED otherThanDriver)
    /\ WF_vars(TrustedReconnect /\ UNCHANGED otherThanDriver)
    /\ WF_vars(PollDnsSeeds /\ UNCHANGED otherThanDriver)
    /\ WF_vars(DriverBgp /\ UNCHANGED otherThanDriver)

\* the store of the trusted-peer driver to REQUEST_BLOCK, main.rs 444, as a
\* scan session sees it
PublishChallenge ==
    /\ \E request \in Challenges :
           /\ request # REQUEST_BLOCK
           /\ REQUEST_BLOCK' = request
    /\ UNCHANGED <<START_SHUTDOWN, pc, peer_state, sent, published, accepted,
                   last_dup>>

\* a scan session while the trusted-peer driver publishes challenges
ScanUpdateNext ==
    \/ ScanNext /\ UNCHANGED otherThanScan
    \/ PublishChallenge /\ UNCHANGED otherThanScan

ScanUpdateSpec == Constructed /\ [][ScanUpdateNext]_vars

\* everything but the trusted-peer session and what it shares with the scan
otherThanTrusted ==
    <<pc, peer_state, sent, published, accepted, last_dup, bloomVars,
      bgpVars, bgpHist, allocVars>>

\* the trusted-peer session with its reconnects, and the reader
TrustedNext ==
    \/ ReaderQuit /\ UNCHANGED <<chainVars, otherThanTrusted>>
    \/ /\ TrustedConnect
       /\ starting_height' = 0
       /\ ChainKept
       /\ UNCHANGED otherThanTrusted
    \/ TrustedRecvVersion /\ UNCHANGED otherThanTrusted
    \/ TrustedRecvVerack /\ UNCHANGED otherThanTrusted
    \/ TrustedRecvHeaders /\ UNCHANGED otherThanTrusted
    \/ TrustedRecvChainBlock /\ UNCHANGED otherThanTrusted
    \/ TrustedRecvIgnored /\ UNCHANGED otherThanTrusted
    \/ /\ TrustedStreamEnd
       /\ ChainKept
       /\ UNCHANGED <<starting_height, otherThanTrusted>>
    \/ /\ TrustedReconnect
       /\ ChainKept
       /\ UNCHANGED <<starting_height, otherThanTrusted>>

TrustedSpec == Constructed /\ [][TrustedNext]_vars

(***************************************************************************)
(* Properties of the scan session.                                         *)
(***************************************************************************)

\* the checkpoint a message stands for
Kind(m) == IF m.type = "addrv2" THEN "addr" ELSE m.type
Kinds(ms) == [i \in 1..Len(ms) |-> Kind(ms[i])]
Checkpoints == {"version", "verack", "pong", "addr", "block"}

PublishedAs(class) ==
    pc = "done" /\ Len(published) = 1 /\ published[1].class = class

\* what the claims ask of an accepted checkpoint message
ContentOk(m) ==
    CASE m.type = "version" ->
             /\ m.ver[1] >= peer_state.request[1]
             /\ m.ver[1] <= peer_state.request[1] + 2016
      [] m.type = "pong" -> m.n = peer_state.pong_nonce
      [] m.type \in {"addr", "addrv2"} -> m.n > 10 /\ m.n <= 1000
      [] m.type = "block" -> m.block = peer_state.request[3]
      [] OTHER -> TRUE

\* C1 as claimed: a session published as Good accepted VERSION, VERACK,
\* PONG (session nonce), ADDR (more than 10 entries) and BLOCK (the
\* challenge block) in exactly that order.
C1_GoodOnlyInOrder ==
    PublishedAs("Good") =>
        /\ Kinds(accepted) = <<"version", "verack", "pong", "addr", "block">>
        /\ \A i \in 1..Len(accepted) : ContentOk(accepted[i])

\* C1 amended: a session published as Good accepted each of the five
\* checkpoints exactly once, each with the required content, and BLOCK
\* last; VERSION, VERACK, PONG and ADDR may come in any order.
C1_GoodNeedsAllFiveBlockLast ==
    PublishedAs("Good") =>
        /\ Len(accepted) = 5
        /\ {Kind(accepted[i]) : i \in 1..5} = Checkpoints
        /\ Kind(accepted[5]) = "block"
        /\ \A i \in 1..5 : ContentOk(accepted[i])

\* a Good session whose first accepted checkpoint is not VERSION
C1_Witness ==
    PublishedAs("Good") /\ Kind(accepted[1]) # "version"

FiveFlags ==
    /\ peer_state.recvd_version
    /\ peer_state.recvd_verack
    /\ peer_state.recvd_pong
    /\ peer_state.recvd_addrs
    /\ peer_state.recvd_block

\* C2: a finished session made exactly one set_node_state call, it is Good
\* if and only if the five flags are set, and the assert of the final
\* closure never fails.
C2_GoodIffAllFlags ==
    /\ pc # "assert_failed"
    /\ pc = "done" =>
          /\ Len(published) = 1
          /\ published[1].class = "Good" <=> FiveFlags
    /\ pc # "done" => published = <<>>

\* a session published as Good, and the flags it ended with
C2_Witness == PublishedAs("Good") /\ FiveFlags

SessionOver == pc \in {"ended", "done"}

\* C3 as claimed: a second VERSION, VERACK, PONG, ADDR/ADDRV2 or BLOCK ends
\* the session as ProtocolViolation, whatever the message holds.
C3_AnyDuplicateIsViolation ==
    last_dup.kind # "none" =>
        /\ SessionOver
        /\ peer_state.fail_reason = "ProtocolViolation"
        /\ pc = "done" => published = <<[class |-> "ProtocolViolation", services |-> 0]>>

\* C3 amended: a second VERACK, a second PONG (whatever its nonce) and a
\* second VERSION that passes the VERSION checks end the session as
\* ProtocolViolation, which is what is published; a second ADDR/ADDRV2 of at
\* most 1000 entries is taken like the first and gives no
\* ProtocolViolation; no message is handled after an accepted BLOCK, so
\* there is no second BLOCK.
C3_DuplicateHandshakeIsViolation ==
    /\ (\/ last_dup.kind \in {"verack", "pong"}
        \/ last_dup.kind = "version" /\ last_dup.passes)
          => /\ SessionOver
             /\ peer_state.fail_reason = "ProtocolViolation"
             /\ pc = "done" =>
                   published = <<[class |-> "ProtocolViolation", services |-> 0]>>
    /\ (last_dup.kind = "addr" /\ last_dup.passes)
          => /\ peer_state.recvd_addrs
             /\ peer_state.fail_reason # "ProtocolViolation"
             /\ pc = "done" => published[1].class # "ProtocolViolation"
    /\ last_dup.kind # "block"

\* a session ended and published for a second VERACK
C3_Witness ==
    /\ PublishedAs("ProtocolViolation")
    /\ last_dup.kind = "verack"

\* C4 as claimed: every session that was started ends and publishes
\* exactly one classification.
C4_EverySessionPublishesOnce ==
    (pc = "connecting") ~> (pc = "done" /\ Len(published) = 1)

\* C5 as claimed: an unknown message with command "gnop" ends the session
\* with EvilNode as the reason the final closure then publishes.
C5_GnopIsEvilNode ==
    [][ RecvUnknownCmd("gnop")
            => pc' = "ended" /\ peer_state'.fail_reason = "EvilNode" ]_vars

(***************************************************************************)
(* Properties of the rolling bloom filter.                                 *)
(***************************************************************************)
\* the generation stored in cell c
Tag(c) == Element(bits[CellWord(c)], CellShift(c))
Live(item) == age[item] >= 0 /\ age[item] < GENERATION_COUNT
Overwritten(item) == \A c \in CellsOf(item) : last_writer[c] # item

\* C6: contains reports every item whose latest insert is fewer than
\* GENERATION_COUNT rolls old, whatever later inserts wrote into its cells.
C6_NoFalseNegativeForLive ==
    \A item \in Items : Live(item) => contains(item)

\* an item of the oldest live generation, one of whose cells a later insert
\* of the other item has rewritten, is reported
C6_Witness ==
    \E item \in Items :
        /\ age[item] = GENERATION_COUNT - 1
        /\ \E c \in CellsOf(item) : last_writer[c] # item
        /\ \E c \in CellsOf(item) : last_writer[c] = item
        /\ contains(item)

\* C7: current_generation stays within 1..GENERATION_COUNT; it is 1 in a new
\* filter, each roll advances it by one and the roll from GENERATION_COUNT
\* gives 1.
C7_GenerationInRange ==
    /\ current_generation \in 1..GENERATION_COUNT
    /\ n_rolls <= GENERATION_COUNT
           => current_generation = (n_rolls % GENERATION_COUNT) + 1

\* the roll from GENERATION_COUNT has just wrapped to 1
C7_Witness == n_rolls = GENERATION_COUNT /\ current_generation = 1

\* C8: an item is still reported GENERATION_COUNT - 1 rolls after its latest
\* insert; from the roll after that on, each of its cells that no later insert
\* rewrote is zero, so it is reported only if every cell was rewritten.
C8_AgedOutAtGthRoll ==
    \A item \in Items :
        /\ age[item] = GENERATION_COUNT - 1 => contains(item)
        /\ age[item] = GENERATION_COUNT =>
              /\ \A c \in CellsOf(item) : last_writer[c] = item => Tag(c) = 0
              /\ contains(item) => Overwritten(item)

\* the scenario of test_bloom: the older item is gone and the item inserted
\* one roll later is still reported
C8_Witness ==
    \E old, new \in Items :
        /\ age[old] = GENERATION_COUNT /\ ~contains(old)
        /\ age[new] = GENERATION_COUNT - 1 /\ contains(new)

\* no roll of the filter so far can have been caused by the clock
NoTimeRoll == now <= RollDuration \div GENERATION_COUNT

ElementCount(older, newest, current) ==
    [i \in 1..GENERATION_COUNT |->
        IF i = GENERATION_COUNT THEN current
        ELSE IF i = GENERATION_COUNT - 1 THEN newest
        ELSE older]

\* C9 as stated: in a new filter that the clock has not rolled, the insert
\* number ROLL_COUNT + 1 has rolled the filter once, and the counts before
\* and after the roll are in the last two slots of get_element_count.
C9_RollAtRollCountPlusOne ==
    (NoTimeRoll /\ n_inserts = ROLL_COUNT + 1) =>
        /\ n_rolls = 1
        /\ get_element_count[GENERATION_COUNT - 1] > 0
        /\ get_element_count[GENERATION_COUNT - 1]
               + get_element_count[GENERATION_COUNT] = ROLL_COUNT + 1

\* C9 amended: in a new filter that the clock has not rolled, the first
\* ROLL_COUNT + 1 inserts do not roll; insert number ROLL_COUNT + 2 rolls
\* once and leaves ROLL_COUNT + 1 in the newest history slot and 1 in the
\* current slot; the next roll, ROLL_COUNT + 1 inserts later, shifts that
\* history one slot toward the front.
C9_RollAtRollCountPlusTwo ==
    NoTimeRoll =>
        /\ n_inserts <= ROLL_COUNT + 1 =>
              /\ n_rolls = 0
              /\ get_element_count = ElementCount(0, 0, n_inserts)
        /\ n_inserts = ROLL_COUNT + 2 =>
              /\ n_rolls = 1
              /\ get_element_count = ElementCount(0, ROLL_COUNT + 1, 1)
        /\ n_inserts = 2 * ROLL_COUNT + 3 =>
              /\ n_rolls = 2
              /\ get_element_count[GENERATION_COUNT] = 1
              /\ get_element_count[GENERATION_COUNT - 1] = ROLL_COUNT + 1
              /\ get_element_count[GENERATION_COUNT - 2] = ROLL_COUNT + 1

C9_Witness ==
    /\ NoTimeRoll
    /\ n_inserts = ROLL_COUNT + 2
    /\ n_rolls = 1
    /\ get_element_count = ElementCount(0, ROLL_COUNT + 1, 1)

\* C10 as stated, in the cases where the program state shows the age of the
\* insert: a roll has happened since the latest insert of the item, so that
\* insert is no later than last_roll, and more than RollDuration has passed
\* since last_roll.  Then contains reports the item only if later inserts
\* rewrote all of its cells.
C10_ForgottenAfterWindow ==
    \A item \in Items :
        (age[item] >= 1 /\ now - last_roll > RollDuration)
            => (contains(item) => Overwritten(item))

(***************************************************************************)
(* The routing table and the best-path choice.                             *)
(***************************************************************************)

\* an address or a prefix as a number
RECURSIVE AddrValue(_)
AddrValue(octets) ==
    IF octets = <<>> THEN 0
    ELSE Head(octets) * 2^(OctetBits * (Len(octets) - 1))
             + AddrValue(Tail(octets))

\* the prefix of a table key covers the address
Covers(key, addr) ==
    LET host == 2^(AddrBits - key[2])
    IN AddrValue(key[1]) = (AddrValue(addr) \div host) * host

\* the stored prefixes that cover the address and hold at least one path
Holding(addr) ==
    {key \in DOMAIN v4_table : Covers(key, addr) /\ DOMAIN v4_table[key] # {}}

\* C11: when two stored prefixes of different lengths both cover an address
\* and both hold a path, get_route_attrs returns the length of the longest
\* such prefix and exactly the paths stored under it.
C11_LongestPrefixWins ==
    \A addr \in Addrs :
        \A long, short \in Holding(addr) :
            (/\ long[2] > short[2]
             /\ \A key \in Holding(addr) : key[2] <= long[2])
                => get_route_attrs(addr) = <<long[2], v4_table[long]>>

\* an address that is not its prefix's first, covered by two prefixes that
\* hold different paths; the lookup gives the longer one's
C11_Witness ==
    \E addr \in Addrs :
        \E long, short \in Holding(addr) :
            /\ long[2] > short[2]
            /\ short[2] > 0
            /\ addr # long[1]
            /\ v4_table[long] # v4_table[short]
            /\ get_route_attrs(addr) = <<long[2], v4_table[long]>>

\* the paths with the greatest pref, among them those with the least
\* path_len, among them those with the least med
Best(path_vecs) ==
    LET ids == DOMAIN path_vecs
        byPref == {p \in ids : \A q \in ids : path_vecs[q].pref <= path_vecs[p].pref}
        byLen == {p \in byPref :
                     \A q \in byPref : path_vecs[p].path_len <= path_vecs[q].path_len}
    IN {p \in byLen : \A q \in byLen : path_vecs[p].med <= path_vecs[q].med}

\* C12: for any non-empty set of paths under the matched prefix, the primary
\* path of get_asn and get_path has the maximum pref, among those the minimum
\* path_len, among those the minimum med, and any such path may be chosen.
C12_PrimaryIsBest ==
    \A addr \in Addrs :
        LET res == get_route_attrs(addr)
        IN DOMAIN res[2] # {} =>
               /\ PrimaryIds(res[2]) = Best(res[2])
               /\ get_path(addr) =
                      {<<res[1], res[2][p].path_suffix>> : p \in Best(res[2])}
               /\ get_asn(addr) = {asn_of(res[2], p) : p \in Best(res[2])}

\* two paths under the matched prefix, the longer one with the greater
\* pref: it is the primary
C12_Witness ==
    \E addr \in Addrs :
        LET path_vecs == get_route_attrs(addr)[2]
        IN \E p, q \in DOMAIN path_vecs :
               /\ path_vecs[p].pref > path_vecs[q].pref
               /\ path_vecs[p].path_len > path_vecs[q].path_len
               /\ PrimaryIds(path_vecs) = {p}
               /\ get_path(addr) = {<<get_route_attrs(addr)[1],
                                      path_vecs[p].path_suffix>>}

\* the positions of a suffix, the ASNs in it
SuffixAsns(route) == {route.path_suffix[j] : j \in 1..PATH_SUFFIX_LEN}
Rightmost(route, asns) ==
    LET at == {j \in 1..PATH_SUFFIX_LEN : route.path_suffix[j] \in asns}
    IN IF at = {} THEN 0
       ELSE route.path_suffix[CHOOSE j \in at : \A k \in at : k <= j]

\* what C14 gives for the primary path p of path_vecs
CommonOrRightmost(path_vecs, p) ==
    LET others == {path_vecs[q] : q \in DOMAIN path_vecs \ {p}}
        nonzero == SuffixAsns(path_vecs[p]) \ {0}
        common == {asn \in nonzero : \A s \in others : asn \in SuffixAsns(s)}
    IN IF common # {} THEN Rightmost(path_vecs[p], common)
       ELSE Rightmost(path_vecs[p], nonzero)

\* C14: get_asn returns the rightmost nonzero ASN of the primary path's
\* suffix that is in the suffix of every secondary path under the matched
\* prefix; without one, the rightmost nonzero ASN of the primary; 0 when the
\* primary suffix is all zero or no prefix matches.
C14_CommonAsn ==
    \A addr \in Addrs :
        LET path_vecs == get_route_attrs(addr)[2]
        IN get_asn(addr) =
               IF DOMAIN path_vecs = {} THEN {0}
               ELSE {CommonOrRightmost(path_vecs, p) : p \in Best(path_vecs)}

\* an address whose two paths share an ASN that is not the primary's last,
\* and an address without a match
C14_Witness ==
    /\ \E addr \in Addrs :
           LET path_vecs == get_route_attrs(addr)[2]
           IN \E p \in DOMAIN path_vecs :
                  /\ Cardinality(DOMAIN path_vecs) > 1
                  /\ PrimaryIds(path_vecs) = {p}
                  /\ get_asn(addr) # {0}
                  /\ get_asn(addr) # {path_vecs[p].path_suffix[PATH_SUFFIX_LEN]}
    /\ \E addr \in Addrs : Holding(addr) = {} /\ get_asn(addr) = {0}

\* C18: get_route_attrs returns the empty list exactly when no stored prefix
\* that holds a path covers the address, every length from the host length
\* down to 0 being considered and an emptied mapping counting as absent.
C18_EmptyIffNothingCovers ==
    \A addr \in Addrs :
        (DOMAIN get_route_attrs(addr)[2] = {}) <=> (Holding(addr) = {})

(***************************************************************************)
(* The announcement pipeline.                                              *)
(***************************************************************************)

\* the AS path map_attrs works on: the last AS4_PATH of the attributes, or
\* without one the last AS_PATH; a sequence of 0 or 1 segment lists
ChosenPath(attributes) ==
    LET at(type) == {i \in 1..Len(attributes) : attributes[i].type = type}
        last(is) == CHOOSE i \in is : \A k \in is : k <= i
    IN IF at("AS4_PATH") # {} THEN <<attributes[last(at("AS4_PATH"))].path>>
       ELSE IF at("AS_PATH") # {} THEN <<attributes[last(at("AS_PATH"))].path>>
       ELSE <<>>

\* the ASNs of the segments of the given kinds, in path order
RECURSIVE RawAsns(_, _)
RawAsns(segments, kinds) ==
    IF segments = <<>> THEN <<>>
    ELSE LET rest == RawAsns(Tail(segments), kinds)
         IN IF Head(segments).kind \in kinds THEN Head(segments).asns \o rest
            ELSE rest

\* a path without the ASNs that repeat their left neighbour
Collapsed(path) ==
    LET keep == {i \in 1..Len(path) : i = 1 \/ path[i] # path[i - 1]}
    IN [n \in 1..Cardinality(keep) |->
           path[CHOOSE i \in keep : Cardinality({k \in keep : k <= i}) = n]]

LastThree(path) ==
    [j \in 1..3 |-> IF Len(path) - 3 + j >= 1 THEN path[Len(path) - 3 + j]
                    ELSE 0]

\* the routes stored for the NLRIs the latest UPDATE announced
Recorded ==
    {v4_table[n.prefix][PathId(n)] :
        n \in {last_update.announced_routes[i] :
                  i \in 1..Len(last_update.announced_routes)}}

\* every route the latest UPDATE recorded has the length and the suffix of
\* the path made of the segments of the given kinds
RecordedFrom(kinds) ==
    ChosenPath(last_update.attributes) # <<>> =>
        LET raw == RawAsns(ChosenPath(last_update.attributes)[1], kinds)
        IN \A route \in Recorded :
               /\ route.path_len = Len(raw)
               /\ route.path_suffix = LastThree(Collapsed(raw))

\* C13 as stated: for any announced AS path the recorded path_len is the
\* number of ASNs in the raw path before prepend removal, and the suffix
\* is the last three ASNs of the collapsed path, left-padded with 0.
C13_LenAndSuffixOfRawPath == RecordedFrom({"AS_SEQUENCE", "AS_SET"})

\* C13 amended: the recorded path_len is the number of ASNs in the
\* AS_SEQUENCE segments of the announced path before prepend removal, and
\* the suffix is the last three ASNs of those segments' ASNs after
\* collapsing adjacent equal ones, left-padded with 0; AS_SET segments
\* count for nothing.
C13_LenAndSuffixOfSequences == RecordedFrom({"AS_SEQUENCE"})

\* the path [1,1,2,2,3] was announced and is recorded with its length 5
\* and the suffix [1,2,3]
C13_Witness ==
    /\ ChosenPath(last_update.attributes) # <<>>
    /\ RawAsns(ChosenPath(last_update.attributes)[1], {"AS_SEQUENCE"})
           = <<1, 1, 2, 2, 3>>
    /\ \E route \in Recorded :
           route.path_len = 5 /\ route.path_suffix = <<1, 2, 3>>

(***************************************************************************)
(* The outbound queue of the BGP session.                                  *)
(***************************************************************************)

\* C19: a failed try_send (queue full or closed) terminates the session that
\* attempted it, the BGP session with its OPEN and KEEPALIVE echoes included.
C19_FailedTrySendEndsBgpSession ==
    last_try_send = "failed" => bgp_pc # "established"

(***************************************************************************)
(* The class a scan session is published with.                             *)
(***************************************************************************)

\* the final closure runs on a PeerState without all five flags
PublishesFailure == pc = "ended" /\ pc' = "done" /\ ~FiveFlags

\* C16: a session that ends without all five flags, its reason still
\* TimeoutDuringRequest and version and verack set, is published as
\* TimeoutAwaitingPong if pong is missing, else TimeoutAwaitingAddr if addr
\* is missing, else TimeoutAwaitingBlock; with version or verack missing it
\* stays TimeoutDuringRequest; a session that received no message is
\* published as Timeout.
C16_TimeoutPromotion ==
    [][PublishesFailure =>
          LET st == peer_state
              class == published'[Len(published')].class
          IN /\ Len(published') = Len(published) + 1
             /\ (st.fail_reason = "TimeoutDuringRequest"
                     /\ st.recvd_version /\ st.recvd_verack)
                    => class = IF ~st.recvd_pong THEN "TimeoutAwaitingPong"
                               ELSE IF ~st.recvd_addrs THEN "TimeoutAwaitingAddr"
                               ELSE "TimeoutAwaitingBlock"
             /\ (st.fail_reason = "TimeoutDuringRequest"
                     /\ ~(st.recvd_version /\ st.recvd_verack))
                    => class = "TimeoutDuringRequest"
             /\ st = NewPeerState(st.request, st.pong_nonce)
                    => class = "Timeout"]_vars

\* a session that got through ADDR and ended by the deadline without a
\* BLOCK was published as TimeoutAwaitingBlock
C16_Witness ==
    /\ pc = "done"
    /\ peer_state.recvd_version /\ peer_state.recvd_verack
    /\ peer_state.recvd_pong /\ peer_state.recvd_addrs
    /\ ~peer_state.recvd_block
    /\ published = <<[class |-> "TimeoutAwaitingBlock", services |-> 0]>>

\* the class C17 gives a start_height against the challenge height
HeightClass(challenge_height, start_height) ==
    IF start_height < challenge_height THEN "LowBlockCount"
    ELSE IF start_height > challenge_height + 2016 THEN "HighBlockCount"
    ELSE "ok"

\* C17: a VERSION passes the height check exactly when start_height is in
\* [challenge_height, challenge_height + 2016]; every start_height below,
\* negative ones included, is classified LowBlockCount and every one above
\* HighBlockCount.
C17_HeightWindow ==
    [][\A h \in StartHeights(peer_state.request[1]), v \in Versions,
          s \in Services, ua \in BOOLEAN, nok \in 0..2 :
          LET m == VersionMsg(<<h, v, s, ua>>)
              class == HeightClass(peer_state.request[1], h)
          IN (CanRecv /\ Deliver(m, HandleVersion(Locked, m, nok))) =>
                 IF class = "ok"
                 THEN peer_state'.fail_reason
                          \notin {"LowBlockCount", "HighBlockCount"}
                 ELSE peer_state'.fail_reason = class /\ pc' = "ended"]_vars

(***************************************************************************)
(* The allocator's cap.                                                    *)
(***************************************************************************)

\* the bytes of the live allocations
RECURSIVE LiveBytes(_)
LiveBytes(n) == IF n = 0 THEN 0 ELSE n * live[n] + LiveBytes(n - 1)

\* C15: under any interleaving of alloc and dealloc calls of several
\* threads, an allocation that would push the counted total over the cap
\* returns null instead of allocating, and the sizes of the live
\* allocations never sum to more than the cap.
C15_LiveWithinCap ==
    [][/\ LiveBytes(TOTAL_MEM_LIMIT_BYTES)' <= TOTAL_MEM_LIMIT_BYTES
       /\ \A t \in Threads :
              (/\ alloc_pc[t] = "added" /\ alloc_pc'[t] = "idle"
               /\ alloc_old[t] + alloc_len[t] > TOTAL_MEM_LIMIT_BYTES)
                  => live' = live]_vars

\* the cap is full of live allocations of two threads, and a third call is
\* between its fetch_add, which found the counter at the cap, and its return
C15_Witness ==
    /\ LiveBytes(TOTAL_MEM_LIMIT_BYTES) = TOTAL_MEM_LIMIT_BYTES
    /\ \E n \in 1..TOTAL_MEM_LIMIT_BYTES : live[n] = 2
    /\ \E t \in Threads :
           /\ alloc_pc[t] = "added"
           /\ alloc_old[t] = TOTAL_MEM_LIMIT_BYTES

(***************************************************************************)
(* Shutdown of the BGP client.                                             *)
(***************************************************************************)

\* C20: once the process-wide shutdown flag is set, the poll_dnsseeds loop
\* eventually calls the BGP client's disconnect(), in every execution, also
\* when shutdown is requested before the first challenge block.
C20_ShutdownDisconnectsBgp ==
    START_SHUTDOWN ~> (dns_pc = "done" /\ shutdown)

(***************************************************************************)
(* Properties of the cooperative shutdown of the BGP session.              *)
(***************************************************************************)

\* a step of the for_each closure or of the stream, not of the writer task
SessionStep == bgp_pc = "established" /\ UNCHANGED <<sender, receiver_alive>>

\* C21: once disconnect() has set shutdown, the next message the session
\* receives is not applied to the routing table and ends the session, and
\* after that exit connect_given_client is never entered again; the final
\* closure of a chain that finds the flag clear calls connect_given_client,
\* whose Delay then leads to a new TcpStream::connect.
C21_CooperativeShutdown ==
    /\ [][shutdown => v4_table' = v4_table]_vars
    /\ [][shutdown /\ SessionStep => bgp_pc' = "closed"]_vars
    /\ [][shutdown /\ bgp_pc \in {"closed", "stopped"}
             => bgp_pc' = "stopped"]_vars
    /\ [][~shutdown /\ bgp_pc = "closed" /\ bgp_pc' # "closed"
             => bgp_pc' = "delay"]_vars
    /\ ((bgp_pc = "delay") ~> (bgp_pc = "connecting"))

\* a session that held routes has exited under shutdown and stays stopped
C21_Witness ==
    /\ shutdown
    /\ bgp_pc = "stopped"
    /\ v4_table # EmptyMap

(***************************************************************************)
(* Properties of the peer's OPEN.                                          *)
(***************************************************************************)

\* C22: once the session has handled the peer's OPEN, which empties the
\* table, every route a lookup returns was stored by an UPDATE the session
\* received after its most recent OPEN.
C22_RoutesAreSinceOpen ==
    fresh.seen =>
        \A addr \in Addrs :
            LET res == get_route_attrs(addr)
            IN DOMAIN res[2] # {} =>
                   \E key \in DOMAIN v4_table :
                       /\ key[2] = res[1]
                       /\ Covers(key, addr)
                       /\ v4_table[key] = res[2]
                       /\ \A id \in DOMAIN res[2] : <<key, id>> \in fresh.keys

\* a session past its OPEN answers a lookup
C22_Witness ==
    /\ fresh.seen
    /\ bgp_pc = "established"
    /\ DOMAIN get_route_attrs(<<3, 0>>)[2] # {}

(***************************************************************************)
(* Properties of the handling of one UPDATE.                               *)
(***************************************************************************)

\* the route a table holds for a prefix and a path id, <<>> for none
Held(table, prefix, id) ==
    IF prefix \in DOMAIN table /\ id \in DOMAIN table[prefix]
    THEN <<table[prefix][id]>> ELSE <<>>

\* the <<prefix, path id>> the NLRIs of the given encodings name
Named(routes, kinds) ==
    {<<routes[i].prefix, PathId(routes[i])>> :
         i \in {j \in 1..Len(routes) : routes[j].kind \in kinds}}

\* what an UPDATE leaves of a table when the NLRIs of the encodings in
\* kinds count: an announced entry holds the Route of the attributes, a
\* withdrawn entry that is not announced is gone, every other entry stays
AfterUpdate(before, after, upd, kinds) ==
    LET path == map_attrs(upd.attributes)
        announced == IF path = <<>> THEN {}
                     ELSE Named(upd.announced_routes, kinds)
        withdrawn == Named(upd.withdrawn_routes, kinds)
    IN \A prefix \in Prefixes, id \in {0, 1} :
           Held(after, prefix, id) =
               IF <<prefix, id>> \in announced THEN path
               ELSE IF <<prefix, id>> \in withdrawn THEN <<>>
               ELSE Held(before, prefix, id)

AllEncodings == {"IP", "IP_WITH_PATH_ID", "IP_MPLS"}

\* C23 as stated: the withdrawals come first, then the one Route of the
\* attributes is stored for every announced NLRI, whatever its encoding.
C23_WithdrawThenAnnounceEveryNlri ==
    [][last_update' # NoUpdate =>
           AfterUpdate(v4_table, v4_table', last_update', AllEncodings)]_vars

\* C23: the withdrawals come first, then the one Route of the attributes is
\* stored for every announced NLRI encoded as IP or IP_WITH_PATH_ID, so an
\* entry withdrawn and announced together holds the new Route; without an
\* AS path the withdrawals alone are applied; IP_MPLS NLRIs are neither
\* withdrawn nor stored.
C23_WithdrawThenAnnounce ==
    [][last_update' # NoUpdate =>
           AfterUpdate(v4_table, v4_table', last_update',
                       {"IP", "IP_WITH_PATH_ID"})]_vars

\* the latest UPDATE withdrew and announced the same entry, and the entry
\* holds the Route of its attributes
C23_Witness ==
    /\ map_attrs(last_update.attributes) # <<>>
    /\ \E key \in Named(last_update.withdrawn_routes, {"IP", "IP_WITH_PATH_ID"})
                   \cap Named(last_update.announced_routes,
                              {"IP", "IP_WITH_PATH_ID"}) :
           Held(v4_table, key[1], key[2]) = map_attrs(last_update.attributes)

(***************************************************************************)
(* Properties of the trusted-peer driver.                                  *)
(***************************************************************************)

\* the latest step ran the Headers arm to its end: no shutdown, no error
HeadersHandled ==
    /\ last_msg'.type = "headers"
    /\ ~START_SHUTDOWN
    /\ trusted_pc' = "reading"

\* the last message the latest step sent is a GETHEADERS whose one locator
\* hash is the tip the step leaves
SendsGetHeaders ==
    /\ trusted_sent' # <<>>
    /\ trusted_sent'[Len(trusted_sent')] =
           Sent("getheaders", <<HIGHEST_HEADER'[1]>>)

Linked(headers) ==
    \A i \in 1..(Len(headers) - 1) :
        prev_blockhash(headers[i + 1]) = headers[i]

Replaced == REQUEST_BLOCK' # REQUEST_BLOCK \/ n_published' # n_published

\* C26: REQUEST_BLOCK is stored to only by the step that handles a block
\* whose height in HEADER_MAP is the tip height less the challenge depth,
\* the stored tuple is that height, the block's hash and the block; a block
\* recorded at any other height leaves REQUEST_BLOCK as it is.
C26_ChallengeOnlyAtDepth ==
    /\ [][Replaced =>
             LET block == last_msg'.block
                 hash == block_hash(block)
             IN /\ last_msg'.type = "block"
                /\ hash \in DOMAIN HEADER_MAP
                /\ HEADER_MAP[hash] + CHALLENGE_DEPTH = HIGHEST_HEADER[2]
                /\ REQUEST_BLOCK' = <<HEADER_MAP[hash], hash, block>>]_vars
    /\ [][(last_msg'.type = "block"
              /\ block_hash(last_msg'.block) \in DOMAIN HEADER_MAP
              /\ HEADER_MAP[block_hash(last_msg'.block)] + CHALLENGE_DEPTH
                     # HIGHEST_HEADER[2])
             => ~Replaced]_vars

\* the block b1x at height 1 was delivered under a tip at height 3 and is
\* the challenge
C26_Witness ==
    /\ last_msg = Handled("block", <<>>, "b1x")
    /\ HIGHEST_HEADER[2] = 1 + CHALLENGE_DEPTH
    /\ REQUEST_BLOCK = <<1, "h1", "b1x">>

\* C27: scan_net and poll_dnsseeds have been called once if a challenge
\* block has been published and not at all before, however many challenge
\* blocks were published and whatever became of the session since.
C27_StartedOnceAtFirstChallenge ==
    /\ n_started = IF n_published = 0 THEN 0 ELSE 1
    /\ SCANNING <=> n_started = 1
    /\ dns_pc = IF n_started = 0 THEN "none" ELSE "polling"

\* a second challenge block was published, the session was dropped since,
\* and the loops were started once
C27_Witness ==
    /\ n_published = 2
    /\ n_started = 1
    /\ trusted_pc = "connecting"

\* C30 as stated: whatever HEADERS batches were handled, HEADER_MAP takes
\* the tip hash to the tip height, HEIGHT_MAP takes the tip height to the
\* tip hash, and every entry of HEIGHT_MAP has its inverse in HEADER_MAP.
C30_TipAgreesWithMaps ==
    /\ HIGHEST_HEADER[1] \in DOMAIN HEADER_MAP
    /\ HEADER_MAP[HIGHEST_HEADER[1]] = HIGHEST_HEADER[2]
    /\ HIGHEST_HEADER[2] \in DOMAIN HEIGHT_MAP
    /\ HEIGHT_MAP[HIGHEST_HEADER[2]] = HIGHEST_HEADER[1]
    /\ \A height \in DOMAIN HEIGHT_MAP :
           /\ HEIGHT_MAP[height] \in DOMAIN HEADER_MAP
           /\ HEADER_MAP[HEIGHT_MAP[height]] = height

(***************************************************************************)
(* Properties of unsolicited transactions in a scan session.               *)
(***************************************************************************)

\* the session receives an INV with the given inventory types
RecvInvOf(invs) ==
    CanRecv /\ Deliver(InvMsg(invs), HandleInv(Locked, InvMsg(invs), 0))

HasTx(invs) ==
    \E i \in 1..Len(invs) : invs[i] \in {"Transaction", "WitnessTransaction"}

FlagsOf(st) ==
    <<st.recvd_version, st.recvd_verack, st.recvd_pong, st.recvd_addrs,
      st.recvd_block>>

\* C28: whatever flags are set, a TX message or an INV with a transaction
\* or witness-transaction entry ends the session with the reason EvilNode
\* and not all five flags set, and a session that ended so is published as
\* EvilNode; an INV of other inventory types only leaves the session
\* reading and every flag as it was.
C28_UnsolicitedTxIsEvilNode ==
    /\ [][(RecvTx \/ \E invs \in InvLists : HasTx(invs) /\ RecvInvOf(invs))
             => /\ pc' = "ended"
                /\ peer_state'.fail_reason = "EvilNode"
                /\ FlagsOf(peer_state') = FlagsOf(peer_state)
                /\ ~AllFlags(peer_state')]_vars
    /\ [][(pc = "ended" /\ peer_state.fail_reason = "EvilNode" /\ pc' # pc)
             => /\ pc' = "done"
                /\ published' = Append(published,
                                       [class |-> "EvilNode", services |-> 0])]_vars
    /\ [][(\E invs \in InvLists : ~HasTx(invs) /\ RecvInvOf(invs))
             => /\ pc' = "reading"
                /\ FlagsOf(peer_state') = FlagsOf(peer_state)]_vars

\* a session with four flags set received a TX and was published EvilNode
C28_Witness ==
    /\ pc = "done"
    /\ FlagsOf(peer_state) = <<TRUE, TRUE, TRUE, TRUE, FALSE>>
    /\ peer_state.msg = <<"due to unrequested transaction", TRUE>>
    /\ published = <<[class |-> "EvilNode", services |-> 0]>>

(***************************************************************************)
(* Properties of a scan session under challenge updates.                   *)
(***************************************************************************)

\* the latest message that set a checkpoint flag
LastAccepted == accepted'[Len(accepted')]

\* C29: the session takes the challenge tuple when it is scheduled and
\* keeps it whatever is published later; the VERSION it accepts has its
\* start_height in the window of that tuple's height, the GETDATA it sends
\* asks for that tuple's hash, the BLOCK it accepts is that tuple's block.
C29_OneChallengePerSession ==
    /\ [][(pc = "scheduled" /\ pc' = "connecting")
             => peer_state'.request = REQUEST_BLOCK]_vars
    /\ [][pc # "scheduled" => peer_state'.request = peer_state.request]_vars
    /\ [][(~peer_state.recvd_version /\ peer_state'.recvd_version)
             => /\ LastAccepted.type = "version"
                /\ LastAccepted.ver[1] >= peer_state.request[1]
                /\ LastAccepted.ver[1] <= peer_state.request[1] + HeightWindow]_vars
    /\ [][\A m \in sent' \ sent :
              m.type = "getdata" => m.block = peer_state.request[2]]_vars
    /\ [][(~peer_state.recvd_block /\ peer_state'.recvd_block)
             => LastAccepted = BlockMsg(peer_state.request[3])]_vars

\* a session scheduled under the genesis challenge was published Good after
\* another challenge had been published
C29_Witness ==
    /\ pc = "done"
    /\ published = <<[class |-> "Good", services |-> NETWORK]>>
    /\ peer_state.request = GenesisChallenge
    /\ REQUEST_BLOCK # GenesisChallenge

(***************************************************************************)
(* The subtraction of the challenge depth from the tip height.             *)
(***************************************************************************)

\* the step runs the Headers arm up to top_height - 216 of main.rs 422: the
\* batch connects, every link holds and top_height has reached
\* starting_height
SubtractsInHeaders ==
    /\ trusted_pc = "reading" /\ ~START_SHUTDOWN
    /\ last_msg'.type = "headers"
    /\ last_msg'.headers # <<>>
    /\ prev_blockhash(last_msg'.headers[1]) \in DOMAIN HEADER_MAP
    /\ LET height == HEADER_MAP[prev_blockhash(last_msg'.headers[1])]
       IN /\ ~RecordHeaders(HEADER_MAP, HEIGHT_MAP, last_msg'.headers,
                            height, 1).broken
          /\ ReachedStart(height + Len(last_msg'.headers), starting_height)

\* the step runs the Block arm up to HIGHEST_HEADER.1 - 216 of main.rs 443:
\* the block's hash is in HEADER_MAP
SubtractsInBlock ==
    /\ trusted_pc = "reading" /\ ~START_SHUTDOWN
    /\ last_msg'.type = "block"
    /\ block_hash(last_msg'.block) \in DOMAIN HEADER_MAP

\* C31 as stated: whenever the driver computes tip - 216, after a HEADERS
\* batch that reaches the advertised start_height or to match a received
\* BLOCK, the tip height is at least 216 and HEIGHT_MAP has an entry at
\* tip - 216, for every start_height and every sequence of headers.
C31_DepthNeverAboveTip ==
    [][/\ SubtractsInHeaders =>
              /\ HIGHEST_HEADER'[2] >= CHALLENGE_DEPTH
              /\ HIGHEST_HEADER'[2] - CHALLENGE_DEPTH \in DOMAIN HEIGHT_MAP'
       /\ SubtractsInBlock =>
              /\ HIGHEST_HEADER[2] >= CHALLENGE_DEPTH
              /\ HIGHEST_HEADER[2] - CHALLENGE_DEPTH \in DOMAIN HEIGHT_MAP]_vars

\* the same for a peer whose advertised start_height is at least the depth,
\* in the Headers arm alone
DepthBelowTipInHeaders ==
    [][(SubtractsInHeaders /\ starting_height >= CHALLENGE_DEPTH) =>
           /\ HIGHEST_HEADER'[2] >= CHALLENGE_DEPTH
           /\ HIGHEST_HEADER'[2] - CHALLENGE_DEPTH \in DOMAIN HEIGHT_MAP'
           /\ trusted_pc' # "panicked"]_vars

\* the same in the Block arm alone
DepthBelowTipInBlock ==
    [][SubtractsInBlock => HIGHEST_HEADER[2] >= CHALLENGE_DEPTH]_vars

(***************************************************************************)
(* The allocator's counter against the live allocations.                   *)
(***************************************************************************)

\* no thread is inside alloc or dealloc
Quiescent == \A t \in Threads : alloc_pc[t] = "idle"

\* thread t returns from an alloc that its limit test refuses
RefusedReturn(t) ==
    /\ alloc_pc[t] = "added" /\ alloc_pc'[t] = "idle"
    /\ OverLimit(alloc_old[t], alloc_len[t])

\* an alloc refused by the limit test takes back what its fetch_add added
RefusedLeavesNoResidue ==
    [][\A t \in Threads :
           RefusedReturn(t) =>
               TOTAL_MEM_ALLOCD' = TOTAL_MEM_ALLOCD - alloc_len[t]]_vars

\* the counter is never below the bytes of the live allocations when no
\* call is in flight
QuiescentCounterCoversLive ==
    Quiescent => TOTAL_MEM_ALLOCD >= LiveBytes(TOTAL_MEM_LIMIT_BYTES)

\* C32 as stated: under any interleaving of alloc and dealloc calls, a
\* refused allocation leaves no residue in the counter once its call has
\* returned, and whenever no call is in flight the counter equals the sum
\* of the sizes of the live allocations.
C32_CounterIsLiveBytes ==
    /\ RefusedLeavesNoResidue
    /\ [](Quiescent => TOTAL_MEM_ALLOCD = LiveBytes(TOTAL_MEM_LIMIT_BYTES))

====
